---- MODULE Spec2Model ----
(***************************************************************************)
(* Model of the Jackery BLE protocol core (private_jack):                   *)
(*   lib/crypto.py      AutoDetectEncryption (latch, candidate order)       *)
(*   lib/ble_client.py  JackeryBleClient: notification path, multi-packet   *)
(*                      assembly, the exchange engine (send_command,        *)
(*                      send_command_collect_all and their auto-detect      *)
(*                      probing variants)                                   *)
(*                                                                         *)
(* Decrypted frames are sequences of bytes (the source holds them as        *)
(* upper-case hex strings, two characters per byte; hex offset 2k is byte   *)
(* k+1 here).  A notification payload is described by what each codec       *)
(* handler makes of it (a body, or nothing), which covers every byte string *)
(* the device can send.  The cooperative scheduler runs the code between    *)
(* two awaits atomically: one action per such stretch.                      *)
(***************************************************************************)
EXTENDS Naturals, Integers, Sequences, FiniteSets, TLC

\* ------------------------------------------------------------------ bounds
MaxCalls == 2       \* API calls (exchanges) issued on the client in one behaviour
MaxResp == 2        \* notifications one collecting call can gather
MaxIdx == 2         \* largest packet index / total in a multi-packet header
MaxTotal == 3       \* largest stream length of the well-formed stream runs
MaxSerial == 1      \* calls made one after the other in the serial-caller runs
MaxOffline == 2     \* calls made one after the other on a client whose link may drop
MaxRetries == 2     \* largest retries argument of connect / connect_by_address

\* --------------------------------------------------------------- constants
NoBody == <<-1>>                     \* Python None where a hex body is expected

RC4 == "rc4"
AES_PORTABLE == "aes_portable"
AES_BOX == "aes_box"
EncTypes == {RC4, AES_PORTABLE, AES_BOX}
NoType == "none"                     \* detected_type is None

\* ------------------------------------------------------- byte-string helpers
Min(S) == CHOOSE x \in S : \A y \in S : x <= y

Truthy(b) == b # NoBody /\ b # <<>>

\* Python slice s[a:b] on whole bytes (a, b are 0-based byte offsets).
Slice(s, a, b) ==
  LET hi == IF b < Len(s) THEN b ELSE Len(s)
  IN IF a >= hi THEN <<>> ELSE [i \in 1..(hi - a) |-> s[a + i]]

\* int(hex, 16) of a byte slice; -1 stands for the ValueError on "".
RECURSIVE HexInt(_)
HexInt(s) ==
  IF s = <<>> THEN -1
  ELSE IF Len(s) = 1 THEN s[1]
  ELSE 256 * HexInt(SubSeq(s, 1, Len(s) - 1)) + s[Len(s)]

\* ------------------------------------------------------------------ state
VARIABLES
  \* AutoDetectEncryption object exercised on its own (crypto.py 197-258)
  adType,            \* device_type the object was built with
  adDetected,        \* _detected_type / _detected_handler (set together)
  adCall,            \* the last call made on it: its input, the latch before, its result
  \* one JackeryBleClient (ble_client.py 59-73)
  cfg,               \* constructor arguments: encryption_key given, device_type, model_code
  link,              \* self.client: "none" (None), "up" (is_connected), "down" (not connected)
  subscribed,        \* start_notify succeeded on the current link
  encryption,        \* self.encryption: the codec object and, for AutoDetect, its latch
  callback,          \* self._notification_callback
  event,             \* self._response_event is set
  last_response,     \* self._last_response
  packet_buffer,     \* self._packet_buffer: packet index -> chunk body
  expected_packets,  \* self._expected_packets
  encryption_logged, \* self._encryption_logged
  \* the calls made on the client (each a coroutine of the one event loop)
  pc,                \* where each call is suspended
  op,                \* which method it is: "send" (wait_response), "fire", "collect"
  orig,              \* send_command_collect_all: original_callback
  idx,               \* auto-detect probing: position in enc_types
  long,              \* collect_time > 2.0
  responses,         \* send_command_collect_all: responses
  attempt,           \* _collect_with_auto_detect: responses_this_attempt
  result,            \* what the call returned, or how it was left
  \* what the last notification did (observation only), and what is observed:
  \* "off" nothing, "frames" the notifications, "calls" the calls
  note,
  watch,
  \* what each call did (observation only, kept when watch is set)
  log,               \* the latch it found, the codec of its local `data`, its writes, what arrived in its window
  \* a multi-packet stream the device sends (the well-formed stream runs)
  stream,            \* its length, the arrival order of its chunks, their bodies
  sent,              \* chunks delivered so far
  emitted,           \* notifications so far whose handling set the response signal
  \* one call of connect / connect_by_address followed attempt by attempt
  conn,              \* its retries argument, where it is, the outcome of each attempt, its sleeps
  \* JackeryBleCoordinator (coordinator.py 30-162) and the clients it has made
  coClient,          \* self._client: number of the current client, 0 for None
  coConnected,       \* self._connected
  links,             \* for each client made so far: "new", "up" (is_connected), "down",
                     \* or "none" (disconnect() has cleared its handle)
  task,              \* the polls and control commands: kind, position, locals, outcome
  trace,             \* connections established and writes issued, in order
  shut,              \* async_shutdown: where it is, the client it disconnects, the client it dropped
  \* the functions followed one application at a time (codecs, command builder,
  \* advertisement decoder, scan)
  input,             \* the arguments of the application
  output,            \* what it returned, NoOutput before it has run
  devices_dict       \* scan: devices_dict of the running scan

adVars == <<adType, adDetected, adCall>>
clientVars == <<cfg, link, subscribed, encryption, callback, event, last_response,
                packet_buffer, expected_packets, encryption_logged>>
callVars == <<pc, op, orig, idx, long, responses, attempt, result>>
streamVars == <<stream, sent, emitted>>
coVars == <<coClient, coConnected, links, task, trace, shut>>
pureVars == <<input, output, devices_dict>>
vars == <<adVars, clientVars, callVars, note, watch, log, streamVars, conn, coVars, pureVars>>

\* is_connected (lines 526-528)
connected_Always == TRUE

connected == link = "up"

\* ======================================================================
\* lib/crypto.py
\* ======================================================================

\* A notification payload: the raw bytes and, for each handler, the body its
\* decrypt returns for these bytes (NoBody for None).  The handlers return
\* None or a body of at least three bytes; they never return "".
BodyA == <<0, 252, 3, 0>>
BodyB == <<0, 4, 4, 0>>

HandlerDecrypt(enc_type, data) == data.dec[enc_type]

\* AutoDetectEncryption.__init__: the ordered candidate list.
Handlers(device_type) ==
  IF device_type = "box" THEN <<AES_BOX>> ELSE <<RC4, AES_PORTABLE>>

Range(f) == {f[i] : i \in DOMAIN f}

\* AutoDetectEncryption.set_detected_type: latches only a listed candidate.
SetDetectedType(handlers, detected, enc_type) ==
  IF enc_type \in Range(handlers) THEN enc_type ELSE detected

\* AutoDetectEncryption.decrypt: the result and the latch it leaves.
AutoDecrypt_KeepLatch(handlers, detected, data) ==
  LET first == IF detected # NoType THEN HandlerDecrypt(detected, data) ELSE NoBody
      ok == {i \in DOMAIN handlers : HandlerDecrypt(handlers[i], data) # NoBody}
  IN IF detected # NoType /\ Truthy(first)
       THEN [result |-> first, detected |-> detected]
     ELSE IF ok = {}
       THEN [result |-> NoBody, detected |-> detected]
     ELSE [result |-> HandlerDecrypt(handlers[Min(ok)], data),
           detected |-> handlers[Min(ok)]]

AutoDecrypt_ListOnly(handlers, detected, data) ==
  LET ok == {i \in DOMAIN handlers : HandlerDecrypt(handlers[i], data) # NoBody}
  IN IF ok = {}
       THEN [result |-> NoBody, detected |-> NoType]
     ELSE [result |-> HandlerDecrypt(handlers[Min(ok)], data),
           detected |-> handlers[Min(ok)]]

AutoDecrypt(handlers, detected, data) ==
  LET first == IF detected # NoType THEN HandlerDecrypt(detected, data) ELSE NoBody
      \* the candidates, in list order, whose decrypt is not None
      ok == {i \in DOMAIN handlers : HandlerDecrypt(handlers[i], data) # NoBody}
  IN IF detected # NoType /\ Truthy(first)
       THEN [result |-> first, detected |-> detected]
     ELSE IF ok = {}
       \* the latched handler failed: latch cleared, no candidate decodes
       THEN [result |-> NoBody, detected |-> NoType]
     ELSE [result |-> HandlerDecrypt(handlers[Min(ok)], data),
           detected |-> handlers[Min(ok)]]

\* Payloads for the codec runs: every combination of handler outcomes.
Outcomes == {NoBody, BodyA, BodyB}
DataAD == [raw : {<<0>>}, dec : [EncTypes -> Outcomes]]

NoCall == [op |-> "none", pre |-> NoType, data |-> [raw |-> <<0>>, dec |-> [t \in EncTypes |-> NoBody]],
           result |-> NoBody]

ADInit ==
  /\ adType \in {"portable", "box"}
  /\ adDetected = NoType
  /\ adCall = NoCall

ADIdle ==
  /\ adType = "portable"
  /\ adDetected = NoType
  /\ adCall = NoCall

ADDecrypt(data) ==
  LET r == AutoDecrypt(Handlers(adType), adDetected, data)
  IN /\ adDetected' = r.detected
     /\ adCall' = [op |-> "decrypt", pre |-> adDetected, data |-> data, result |-> r.result]
     /\ UNCHANGED <<adType, clientVars, callVars, note, watch, log, streamVars, conn, coVars, pureVars>>

ADSetDetectedType(enc_type) ==
  /\ adDetected' = SetDetectedType(Handlers(adType), adDetected, enc_type)
  /\ adCall' = [NoCall EXCEPT !.op = "set", !.pre = adDetected]
  /\ UNCHANGED <<adType, clientVars, callVars, note, watch, log, streamVars, conn, coVars, pureVars>>

NextDecrypt ==
  \/ \E data \in DataAD : ADDecrypt(data)
  \/ \E enc_type \in EncTypes : ADSetDetectedType(enc_type)

\* ======================================================================
\* lib/ble_client.py: JackeryBleClient
\* ======================================================================

NoCode == -1                          \* model_code is None
NoEncryption == [kind |-> "none", device_type |-> "portable", detected |-> NoType]
Fixed(enc_type) == [kind |-> enc_type, device_type |-> "portable", detected |-> NoType]
Auto(device_type) == [kind |-> "auto", device_type |-> device_type, detected |-> NoType]

NoCallback == [k |-> "none", c |-> 0, i |-> 0]
Collector(c) == [k |-> "collect", c |-> c, i |-> 0]  \* collect_callback of call c
Prober(c, i) == [k |-> "probe", c |-> c, i |-> i]    \* make_callback(...) of attempt i

NoNote == [kind |-> "none", body |-> NoBody, idxs |-> {}]
Observe(kind, body, idxs) ==
  IF watch = "frames" THEN [kind |-> kind, body |-> body, idxs |-> idxs] ELSE NoNote

IsAuto == encryption.kind = "auto"
Unlatched == IsAuto /\ encryption.detected = NoType

\* connect_by_address, lines 264-272: the codec chosen from the constructor arguments.
EncryptionByAddress(c, current) ==
  IF ~c.key THEN current
  ELSE IF c.device_type = "box" THEN Fixed(AES_BOX)
  ELSE IF c.model_code \in {20, 21} THEN Fixed(AES_PORTABLE)
  ELSE IF c.model_code # NoCode THEN Fixed(RC4)
  ELSE Auto("portable")

\* self.encryption.decrypt(data) for whichever codec object is installed.
Decrypt(enc, data) ==
  IF enc.kind = "auto"
    THEN AutoDecrypt(Handlers(enc.device_type), enc.detected, data)
    ELSE [result |-> HandlerDecrypt(enc.kind, data), detected |-> enc.detected]

\* ---- the record of what each call did
NoLog == [latch |-> NoType, enc |-> "none", writes |-> <<>>, heard |-> <<>>, decoded |-> {}, fresh |-> FALSE]

\* AutoDetectEncryption.encrypt (crypto.py 221-223) and the fixed codecs: the
\* codec a request is encrypted with ("plain": no codec, the bytes as given).
EncryptType_First(enc) ==
  IF enc.kind = "none" THEN "plain"
  ELSE IF enc.kind # "auto" THEN enc.kind
  ELSE Handlers(enc.device_type)[1]

EncryptType_Last(enc) ==
  IF enc.kind = "none" THEN "plain"
  ELSE IF enc.kind # "auto" THEN enc.kind
  ELSE IF enc.detected # NoType THEN enc.detected
  ELSE Handlers(enc.device_type)[Len(Handlers(enc.device_type))]

EncryptType(enc) ==
  IF enc.kind = "none" THEN "plain"
  ELSE IF enc.kind # "auto" THEN enc.kind
  ELSE IF enc.detected # NoType THEN enc.detected
  ELSE Handlers(enc.device_type)[1]

\* what is recorded of the calls: "calls" their writes and collected frames,
\* "probes" also what each notification meant to the calls that wait
Watching == watch \in {"calls", "probes"}

LogStart(c, enc_type, wrote) ==
  log' = IF Watching
           THEN [log EXCEPT ![c] = [latch |-> encryption.detected, enc |-> enc_type,
                                    writes |-> wrote, heard |-> <<>>, decoded |-> {}, fresh |-> FALSE]]
           ELSE log

LogWrite(c, enc_type) ==
  log' = IF Watching THEN [log EXCEPT ![c].writes = Append(@, enc_type)] ELSE log

Collecting == {"ca_sleep", "cad_sleep", "cad_rest"}

\* the waits of the probing loops (lines 442 and 509)
Probing == {"ad_wait", "cad_sleep"}

\* ---- the notification callback slot being called with one parsed frame
Append1_Front(f, c, item) == [f EXCEPT ![c] = <<item>> \o @]

Append1(f, c, item) == [f EXCEPT ![c] = Append(@, item)]

\* The lists a callback appends to.  A list of a call that has ended is
\* garbage; a prober of an earlier attempt appends to that attempt's list (dead)
\* and still calls the collector it wraps.
CallbackResponses(cb, item) ==
  IF cb.k \in {"collect", "probe"} /\ pc[cb.c] # "done"
    THEN Append1(responses, cb.c, item) ELSE responses

CallbackAttempt(cb, item) ==
  IF cb.k = "probe" /\ pc[cb.c] # "done" /\ idx[cb.c] = cb.i
    THEN Append1(attempt, cb.c, item) ELSE attempt

CallbackRoom(cb) ==
  cb.k \in {"collect", "probe"} /\ pc[cb.c] # "done" => Len(responses[cb.c]) < MaxResp

\* ---- _handle_multi_packet (lines 341-360)
PacketNum(decrypted) == HexInt(Slice(decrypted, 4, 6))
TotalPackets(decrypted) == HexInt(Slice(decrypted, 6, 8))
ChunkBody(decrypted) == Slice(decrypted, 8, Len(decrypted))

Store(buffer, n, body) ==
  [i \in (DOMAIN buffer) \cup {n} |-> IF i = n THEN body ELSE buffer[i]]

RECURSIVE Combine(_, _, _)
Combine(buffer, i, total) ==
  IF i > total THEN <<>>
  ELSE (IF i \in DOMAIN buffer THEN buffer[i] ELSE <<>>) \o Combine(buffer, i + 1, total)

\* len(self._packet_buffer) >= total_packets
AssemblyDone_AlwaysLast(buffer, total) == TRUE

AssemblyDone(buffer, total) == Cardinality(DOMAIN buffer) >= total

HandleMultiPacket_KeepBuffer(decrypted) ==
  LET n == PacketNum(decrypted)
      total == TotalPackets(decrypted)
      buffer == Store(packet_buffer, n, ChunkBody(decrypted))
      combined == Combine(buffer, 1, total)
  IN IF n < 0 \/ total < 0
       THEN /\ note' = Observe("malformed", decrypted, {})
            /\ UNCHANGED <<packet_buffer, expected_packets, last_response, event,
                           responses, attempt>>
     ELSE IF ~AssemblyDone(buffer, total)
       THEN /\ packet_buffer' = buffer
            /\ expected_packets' = total
            /\ note' = Observe("chunk", decrypted, DOMAIN buffer)
            /\ UNCHANGED <<last_response, event, responses, attempt>>
     ELSE /\ packet_buffer' = buffer
          /\ expected_packets' = total
          /\ last_response' = combined
          /\ event' = TRUE
          /\ CallbackRoom(callback)
          /\ responses' = CallbackResponses(callback, combined)
          /\ attempt' = CallbackAttempt(callback, combined)
          /\ note' = Observe("assembled", decrypted, DOMAIN buffer)

HandleMultiPacket(decrypted) ==
  LET n == PacketNum(decrypted)
      total == TotalPackets(decrypted)
      buffer == Store(packet_buffer, n, ChunkBody(decrypted))
      combined == Combine(buffer, 1, total)
  IN IF n < 0 \/ total < 0
       \* int("", 16) raises before anything is stored; the except clause logs it
       THEN /\ note' = Observe("malformed", decrypted, {})
            /\ UNCHANGED <<packet_buffer, expected_packets, last_response, event,
                           responses, attempt>>
     ELSE IF ~AssemblyDone(buffer, total)
       THEN /\ packet_buffer' = buffer
            /\ expected_packets' = total
            /\ note' = Observe("chunk", decrypted, DOMAIN buffer)
            /\ UNCHANGED <<last_response, event, responses, attempt>>
     ELSE /\ packet_buffer' = <<>>
          /\ expected_packets' = 0
          /\ last_response' = combined
          /\ event' = TRUE
          /\ CallbackRoom(callback)
          /\ responses' = CallbackResponses(callback, combined)
          /\ attempt' = CallbackAttempt(callback, combined)
          /\ note' = Observe("assembled", decrypted, DOMAIN buffer)

\* decrypted.startswith("80")
IsMultiPacket_SecondByte(decrypted) == Len(decrypted) >= 2 /\ decrypted[2] = 128

IsMultiPacket(decrypted) == decrypted[1] = 128

\* The frame the notification path hands to _parse_and_callback or
\* _parse_and_callback_raw for this payload (NoBody: none).
Delivered(data) ==
  LET d == Decrypt(encryption, data).result
      total == TotalPackets(d)
      buffer == Store(packet_buffer, PacketNum(d), ChunkBody(d))
  IN IF encryption.kind = "none" \/ ~Truthy(d) THEN NoBody
     ELSE IF ~IsMultiPacket(d) THEN d
     ELSE IF PacketNum(d) < 0 \/ total < 0 \/ ~AssemblyDone(buffer, total) THEN NoBody
     ELSE Combine(buffer, 1, total)

\* this payload makes the notification path set the response signal
SetsSignal(data) == encryption.kind = "none" \/ Delivered(data) # NoBody

\* ---- _handle_notification (lines 320-339); the link delivers a notification
\* only while the subscription made by start_notify is alive.
HandleNotification(data) ==
  /\ connected /\ subscribed
  /\ UNCHANGED <<cfg, link, subscribed, callback, adVars, watch, pc, op, orig, idx, long, result>>
  /\ IF encryption.kind = "none"
       THEN /\ last_response' = data.raw
            /\ event' = TRUE
            /\ note' = Observe("raw", data.raw, {})
            /\ UNCHANGED <<encryption, encryption_logged, packet_buffer, expected_packets,
                           responses, attempt>>
     ELSE
       LET r == Decrypt(encryption, data)
           decrypted == r.result
       IN /\ encryption' = [encryption EXCEPT !.detected = r.detected]
          /\ IF ~Truthy(decrypted)
               THEN /\ note' = Observe("undecoded", NoBody, {})
                    /\ UNCHANGED <<encryption_logged, last_response, event, packet_buffer,
                                   expected_packets, responses, attempt>>
             ELSE
               /\ encryption_logged' =
                    (encryption_logged \/ (IsAuto /\ r.detected # NoType))
               /\ IF IsMultiPacket(decrypted)
                    THEN HandleMultiPacket(decrypted)
                  ELSE /\ last_response' = decrypted
                       /\ event' = TRUE
                       /\ CallbackRoom(callback)
                       /\ responses' = CallbackResponses(callback, decrypted)
                       /\ attempt' = CallbackAttempt(callback, decrypted)
                       /\ note' = Observe("single", decrypted, {})
                       /\ UNCHANGED <<packet_buffer, expected_packets>>
  \* the frame handed to the callback slot, as seen by the calls that are
  \* collecting, the handlers that decode the payload, as seen by the calls
  \* that are probing, and whether the signal was set after the write, as
  \* seen by the calls that wait for a response
  /\ log' = IF Watching
             THEN [c \in DOMAIN log |->
                     [log[c] EXCEPT
                        !.heard = IF pc[c] \in Collecting /\ Delivered(data) # NoBody
                                    THEN Append(@, Delivered(data)) ELSE @,
                        !.decoded = IF watch = "probes" /\ pc[c] \in Probing /\ encryption.kind # "none"
                                      THEN @ \cup {t \in EncTypes : Truthy(HandlerDecrypt(t, data))}
                                      ELSE @,
                        !.fresh = @ \/ (watch = "probes" /\ pc[c] = "sc_wait" /\ SetsSignal(data))]]
             ELSE log

\* A notification outside the stream runs.
Notification(data) == HandleNotification(data) /\ UNCHANGED <<streamVars, conn, coVars, pureVars>>

\* ---- how a call ends or suspends.  The lists of a call that has ended are
\* dropped with its frame (the returned list is kept in result).
Drop(f, c) == [f EXCEPT ![c] = <<>>]

Raise(c, how) ==
  /\ pc' = [pc EXCEPT ![c] = "done"]
  /\ result' = [result EXCEPT ![c] = [how |-> how, value |-> NoBody, list |-> <<>>]]
  /\ responses' = Drop(responses, c)
  /\ attempt' = Drop(attempt, c)

Return(c, value, list) ==
  /\ pc' = [pc EXCEPT ![c] = "done"]
  /\ result' = [result EXCEPT ![c] = [how |-> "returned", value |-> value, list |-> list]]
  /\ responses' = Drop(responses, c)
  /\ attempt' = Drop(attempt, c)

Suspend(c, at) ==
  /\ pc' = [pc EXCEPT ![c] = at]
  /\ UNCHANGED <<result, responses>>

\* Calls are numbered in the order they are made.
Begin(c, o) ==
  /\ pc[c] = "new"
  /\ (IF c = 1 THEN TRUE ELSE pc[c - 1] # "new")
  /\ op' = [op EXCEPT ![c] = o]

\* write_gatt_char returns, or raises (always when the link is down).  The write
\* is taken as one step with the code that leads to it.
WriteOutcomes == IF connected THEN {TRUE, FALSE} ELSE {FALSE}

EncTypesOf(enc) == Handlers(enc.device_type)      \* get_encryption_types()

Latch_None(enc, enc_type) == enc

Latch(enc, enc_type) ==
  [enc EXCEPT !.detected = SetDetectedType(EncTypesOf(enc), @, enc_type)]

\* ---- _send_with_auto_detect (lines 433-449): one pass of the loop body up to
\* its wait, for candidate number i.
ProbeWrite(c, i) ==
  /\ (IF pc[c] = "new"
        THEN LogStart(c, EncTypesOf(encryption)[i], <<EncTypesOf(encryption)[i]>>)
        ELSE LogWrite(c, EncTypesOf(encryption)[i]))
  /\ event' = FALSE
  /\ last_response' = NoBody
  /\ idx' = [idx EXCEPT ![c] = i]
  /\ \E ok \in WriteOutcomes :
       IF ok THEN Suspend(c, "ad_wait") /\ UNCHANGED attempt ELSE Raise(c, "raised")

ProbeNext(c) ==
  IF idx[c] < Len(EncTypesOf(encryption))
    THEN ProbeWrite(c, idx[c] + 1)
    ELSE /\ Return(c, NoBody, <<>>)
         /\ UNCHANGED <<event, last_response, idx, log>>

\* ---- send_command (lines 397-431), from the call to its first await
SendCommand(c, wait) ==
  /\ Begin(c, IF wait THEN "send" ELSE "fire")
  /\ note' = NoNote
  /\ UNCHANGED <<adVars, watch, streamVars, conn, coVars, pureVars, cfg, link, subscribed, encryption, callback, packet_buffer,
                 expected_packets, encryption_logged, orig, long>>
  /\ IF ~connected
       THEN /\ Raise(c, "not_connected")
            /\ LogStart(c, "none", <<>>)
            /\ UNCHANGED <<event, last_response, idx>>
     ELSE IF Unlatched /\ wait
       THEN ProbeWrite(c, 1)
     ELSE /\ event' = FALSE
          /\ last_response' = NoBody
          /\ Suspend(c, "sc_sleep")
          /\ LogStart(c, EncryptType(encryption), <<>>)
          /\ UNCHANGED <<idx, attempt>>

\* after asyncio.sleep(0.1): the write, then the wait or the return
SendWrite(c) ==
  /\ pc[c] = "sc_sleep"
  /\ note' = NoNote
  /\ LogWrite(c, log[c].enc)
  /\ UNCHANGED <<adVars, watch, streamVars, conn, coVars, pureVars, clientVars, op, orig, idx, long>>
  /\ \E ok \in WriteOutcomes :
       IF ~ok THEN Raise(c, "raised")
       ELSE IF op[c] = "send" THEN Suspend(c, "sc_wait") /\ UNCHANGED attempt
       ELSE Return(c, NoBody, <<>>)

\* asyncio.wait_for(self._response_event.wait(), timeout): the signal is set
SendWake(c) ==
  /\ pc[c] = "sc_wait"
  /\ event
  /\ note' = NoNote
  /\ UNCHANGED log
  /\ Return(c, last_response, <<>>)
  /\ UNCHANGED <<adVars, watch, streamVars, conn, coVars, pureVars, clientVars, op, orig, idx, long>>

\* a wait with no timeout: the call stays suspended while the signal is clear
SendTimeout_Forever(c) ==
  /\ pc[c] = "sc_wait"
  /\ ~event
  /\ UNCHANGED vars

\* ... or the timeout passes first
SendTimeout(c) ==
  /\ pc[c] = "sc_wait"
  /\ ~event
  /\ note' = NoNote
  /\ UNCHANGED log
  /\ Return(c, NoBody, <<>>)
  /\ UNCHANGED <<adVars, watch, streamVars, conn, coVars, pureVars, clientVars, op, orig, idx, long>>

\* _send_with_auto_detect: the 2.0 s wait ends with the signal set
ProbeWake(c) ==
  /\ pc[c] = "ad_wait"
  /\ event
  /\ note' = NoNote
  /\ UNCHANGED <<adVars, watch, streamVars, conn, coVars, pureVars, cfg, link, subscribed, callback, packet_buffer,
                 expected_packets, op, orig, long>>
  /\ IF Truthy(last_response)
       THEN /\ encryption' = Latch(encryption, EncTypesOf(encryption)[idx[c]])
            /\ encryption_logged' = TRUE
            /\ Return(c, last_response, <<>>)
            /\ UNCHANGED <<event, last_response, idx, log>>
       ELSE /\ ProbeNext(c)
            /\ UNCHANGED <<encryption, encryption_logged>>

ProbeTimeout(c) ==
  /\ pc[c] = "ad_wait"
  /\ ~event
  /\ note' = NoNote
  /\ UNCHANGED <<adVars, watch, streamVars, conn, coVars, pureVars, cfg, link, subscribed, callback, packet_buffer,
                 expected_packets, op, orig, long, encryption, encryption_logged>>
  /\ ProbeNext(c)

\* ---- _collect_with_auto_detect (lines 487-519): one pass of the loop body up
\* to its 2.0 s sleep
CollectProbeWrite(c, i) ==
  /\ (IF pc[c] = "new"
        THEN LogStart(c, EncTypesOf(encryption)[i], <<EncTypesOf(encryption)[i]>>)
        ELSE LogWrite(c, EncTypesOf(encryption)[i]))
  /\ callback' = Prober(c, i)
  /\ event' = FALSE
  /\ last_response' = NoBody
  /\ packet_buffer' = <<>>
  /\ idx' = [idx EXCEPT ![c] = i]
  /\ \E ok \in WriteOutcomes :
       IF ok THEN Suspend(c, "cad_sleep") /\ attempt' = Drop(attempt, c)
       ELSE Raise(c, "raised")

\* ---- send_command_collect_all (lines 451-485), from the call to its first await
SendCommandCollectAll(c, lg) ==
  /\ Begin(c, "collect")
  /\ long' = [long EXCEPT ![c] = lg]
  /\ note' = NoNote
  /\ UNCHANGED <<adVars, watch, streamVars, conn, coVars, pureVars, cfg, link, subscribed, encryption, expected_packets,
                 encryption_logged>>
  /\ IF ~connected
       THEN /\ Raise(c, "not_connected")
            /\ LogStart(c, "none", <<>>)
            /\ UNCHANGED <<callback, event, last_response, packet_buffer, orig, idx>>
     ELSE /\ orig' = [orig EXCEPT ![c] = callback]
          /\ IF Unlatched
               THEN CollectProbeWrite(c, 1)
               ELSE /\ callback' = Collector(c)
                    /\ LogStart(c, EncryptType(encryption), <<EncryptType(encryption)>>)
                    /\ event' = FALSE
                    /\ last_response' = NoBody
                    /\ packet_buffer' = <<>>
                    /\ \E ok \in WriteOutcomes :
                         IF ok THEN Suspend(c, "ca_sleep") /\ UNCHANGED attempt
                         ELSE Raise(c, "raised")
                    /\ UNCHANGED idx

\* after asyncio.sleep(collect_time): restore the callback, return the list
CollectEnd(c) ==
  /\ pc[c] = "ca_sleep"
  /\ note' = NoNote
  /\ UNCHANGED log
  /\ callback' = orig[c]
  /\ Return(c, NoBody, responses[c])
  /\ UNCHANGED <<adVars, watch, streamVars, conn, coVars, pureVars, cfg, link, subscribed, encryption, event, last_response,
                 packet_buffer, expected_packets, encryption_logged, op, orig, idx, long>>

\* _collect_with_auto_detect after asyncio.sleep(2.0)
CollectProbeWake(c) ==
  /\ pc[c] = "cad_sleep"
  /\ note' = NoNote
  /\ UNCHANGED <<adVars, watch, streamVars, conn, coVars, pureVars, cfg, link, subscribed, expected_packets, op, orig, long>>
  /\ IF attempt[c] # <<>>
       THEN /\ encryption' = Latch(encryption, EncTypesOf(encryption)[idx[c]])
            /\ encryption_logged' = TRUE
            /\ UNCHANGED <<event, last_response, packet_buffer, idx, log>>
            /\ IF long[c]
                 \* all_responses now holds a copy of this attempt's list
                 THEN /\ pc' = [pc EXCEPT ![c] = "cad_rest"]
                      /\ result' = [result EXCEPT ![c].list = attempt[c]]
                      /\ UNCHANGED <<callback, responses, attempt>>
                 ELSE /\ Return(c, NoBody, attempt[c])
                      /\ callback' = orig[c]
     ELSE IF idx[c] < Len(EncTypesOf(encryption))
       THEN /\ CollectProbeWrite(c, idx[c] + 1)
            /\ UNCHANGED <<encryption, encryption_logged>>
     ELSE /\ Return(c, NoBody, <<>>)
          /\ callback' = orig[c]
          /\ UNCHANGED <<encryption, encryption_logged, event, last_response,
                         packet_buffer, idx, log>>

\* _collect_with_auto_detect after asyncio.sleep(remaining_time)
CollectProbeEnd(c) ==
  /\ pc[c] = "cad_rest"
  /\ note' = NoNote
  /\ UNCHANGED log
  /\ callback' = orig[c]
  /\ Return(c, NoBody, result[c].list)
  /\ UNCHANGED <<adVars, watch, streamVars, conn, coVars, pureVars, cfg, link, subscribed, encryption, event, last_response,
                 packet_buffer, expected_packets, encryption_logged, op, orig, idx, long>>

Suspended == {"sc_sleep", "sc_wait", "ad_wait", "ca_sleep", "cad_sleep", "cad_rest"}

\* The task running the call is cancelled: CancelledError is raised at the await
\* the call is suspended in, and no handler of the client catches it to clean up.
Cancel(c) ==
  /\ pc[c] \in Suspended
  /\ note' = NoNote
  /\ UNCHANGED log
  /\ Raise(c, "cancelled")
  /\ UNCHANGED <<adVars, watch, streamVars, conn, coVars, pureVars, clientVars, op, orig, idx, long>>

\* ---- connect_by_address (lines 248-287) on a new client, by how its last
\* attempt ends: "ok" link up and subscribed; "no_link" no link; "no_notify"
\* link up, codec chosen, start_notify raised (False is returned, the link open).
ConnectByAddress(outcome) ==
  /\ link = "none"
  /\ note' = NoNote
  /\ link' = IF outcome = "no_link" THEN "down" ELSE "up"
  /\ subscribed' = (outcome = "ok")
  /\ encryption' = IF outcome = "no_link" THEN encryption
                   ELSE EncryptionByAddress(cfg, encryption)
  /\ UNCHANGED <<adVars, watch, streamVars, conn, coVars, pureVars, cfg, callback, event, last_response, packet_buffer,
                 expected_packets, encryption_logged, callVars, log>>

\* The link drops (the peer goes away): is_connected turns False.
LinkDrop ==
  /\ connected
  /\ note' = NoNote
  /\ link' = "down"
  /\ subscribed' = FALSE
  /\ UNCHANGED <<adVars, watch, streamVars, conn, coVars, pureVars, cfg, encryption, callback, event, last_response,
                 packet_buffer, expected_packets, encryption_logged, callVars, log>>

\* ---------------------------------------------------------------- payloads
Chunk(i, total, body) ==
  <<128, 0, 0, 0, i \div 256, i % 256, total \div 256, total % 256>> \o body

Payload(enc_type, body) ==
  [raw |-> body, dec |-> [t \in EncTypes |-> IF t = enc_type THEN body ELSE NoBody]]

Garbage == [raw |-> <<255>>, dec |-> [t \in EncTypes |-> NoBody]]

\* Frames of the exchange runs: a single-packet frame and the first chunk of two.
FramesX == {BodyA, Chunk(1, 2, <<65>>)}
DataX == {Garbage} \cup {Payload(t, b) : t \in EncTypes, b \in FramesX}

\* Constructor arguments seen by connect_by_address.
Configs ==
  { [key |-> FALSE, device_type |-> "portable", model_code |-> NoCode],
    [key |-> TRUE, device_type |-> "box", model_code |-> NoCode],
    [key |-> TRUE, device_type |-> "portable", model_code |-> 20],
    [key |-> TRUE, device_type |-> "portable", model_code |-> 1],
    [key |-> TRUE, device_type |-> "portable", model_code |-> NoCode] }

NoStream == [n |-> 0, order |-> <<>>, body |-> <<>>]
StreamIdle == stream = NoStream /\ sent = 0 /\ emitted = 0

NoConn == [by |-> "none", retries |-> 0, at |-> "idle", tried |-> <<>>, sleeps |-> 0,
           returned |-> "pending"]
ConnIdle == conn = NoConn

NoInput == [fn |-> "none"]
NoOutput == [fn |-> "none"]
PureIdle == input = NoInput /\ output = NoOutput /\ devices_dict = <<>>

NoTask == [kind |-> "none", pc |-> "idle", mine |-> 0, target |-> 0, found_up |-> FALSE,
           sync |-> "none", collected |-> FALSE, responses |-> <<>>, out |-> "pending",
           why |-> "", doc |-> <<>>]

NoShut == [pc |-> "idle", target |-> 0, dropped |-> 0]

\* JackeryBleCoordinator.__init__ (coordinator.py 33-50)
CoInit(tasks) ==
  /\ coClient = 0
  /\ coConnected = FALSE
  /\ links = <<>>
  /\ task = [t \in tasks |-> NoTask]
  /\ trace = <<>>
  /\ shut = NoShut

Pending == [how |-> "pending", value |-> NoBody, list |-> <<>>]

ClientInit(calls) ==
  /\ link = "none"
  /\ subscribed = FALSE
  /\ encryption = NoEncryption
  /\ callback = NoCallback
  /\ event = FALSE
  /\ last_response = NoBody
  /\ packet_buffer = <<>>
  /\ expected_packets = 0
  /\ encryption_logged = FALSE
  /\ pc = [c \in calls |-> "new"]
  /\ op = [c \in calls |-> "none"]
  /\ orig = [c \in calls |-> NoCallback]
  /\ idx = [c \in calls |-> 0]
  /\ long = [c \in calls |-> FALSE]
  /\ responses = [c \in calls |-> <<>>]
  /\ attempt = [c \in calls |-> <<>>]
  /\ result = [c \in calls |-> Pending]
  /\ log = [c \in calls |-> NoLog]
  /\ note = NoNote

\* ======================================================================
\* The exchange engine: calls interleaving on one client
\* ======================================================================
Init ==
  /\ ADIdle
  /\ cfg \in Configs
  /\ watch = "off"
  /\ StreamIdle
  /\ ConnIdle
  /\ PureIdle
  /\ CoInit({})
  /\ ClientInit(1..MaxCalls)

Next ==
  \/ \E outcome \in {"ok", "no_link", "no_notify"} : ConnectByAddress(outcome)
  \/ LinkDrop
  \/ \E data \in DataX : Notification(data)
  \/ \E c \in DOMAIN pc, wait \in BOOLEAN : SendCommand(c, wait)
  \/ \E c \in DOMAIN pc : SendWrite(c)
  \/ \E c \in DOMAIN pc : SendWake(c)
  \/ \E c \in DOMAIN pc : SendTimeout(c)
  \/ \E c \in DOMAIN pc : ProbeWake(c)
  \/ \E c \in DOMAIN pc : ProbeTimeout(c)
  \/ \E c \in DOMAIN pc, lg \in (IF Unlatched THEN BOOLEAN ELSE {FALSE}) :
       SendCommandCollectAll(c, lg)
  \/ \E c \in DOMAIN pc : CollectEnd(c)
  \/ \E c \in DOMAIN pc : CollectProbeWake(c)
  \/ \E c \in DOMAIN pc : CollectProbeEnd(c)
  \/ \E c \in DOMAIN pc : Cancel(c)

Spec == Init /\ [][Next]_vars

\* ======================================================================
\* The codec object on its own
\* ======================================================================
InitDecrypt ==
  /\ ADInit
  /\ cfg = [key |-> TRUE, device_type |-> adType, model_code |-> NoCode]
  /\ watch = "off"
  /\ StreamIdle
  /\ ConnIdle
  /\ PureIdle
  /\ CoInit({})
  /\ ClientInit({})

SpecDecrypt == InitDecrypt /\ [][NextDecrypt]_vars

\* ======================================================================
\* The notification path on its own: a connected client, no call in flight,
\* the device sending frames with arbitrary headers
\* ======================================================================
Text(i) == <<64 + i>>

FramesP ==
  {BodyA, <<0, 128, 0, 0>>}
  \cup {Chunk(i, total, Text(v + i)) : i \in 0..MaxIdx, total \in 0..MaxIdx, v \in {0, 32}}
  \cup {<<128, 0, 0, 0>>, <<128, 0, 0, 0, 0, 1>>, <<128, 0, 0, 0, 0, 1, 1>>}

DataP == {Garbage} \cup {Payload(t, b) : t \in {RC4, AES_PORTABLE}, b \in FramesP}

ConfigsP ==
  { [key |-> FALSE, device_type |-> "portable", model_code |-> NoCode],
    [key |-> TRUE, device_type |-> "portable", model_code |-> 1],
    [key |-> TRUE, device_type |-> "portable", model_code |-> NoCode] }

InitParser ==
  /\ ADIdle
  /\ cfg \in ConfigsP
  /\ watch = "frames"
  /\ StreamIdle
  /\ ConnIdle
  /\ PureIdle
  /\ CoInit({})
  /\ ClientInit({})

NextParser ==
  \/ \E outcome \in {"ok", "no_link", "no_notify"} : ConnectByAddress(outcome)
  \/ \E data \in DataP : Notification(data)

SpecParser == InitParser /\ [][NextParser]_vars

\* ======================================================================
\* One well-formed stream: the chunks 1..n of an n-packet response, each sent
\* once, in any order, to a client whose assembly buffer is empty
\* ======================================================================
Perms(n) == {f \in [1..n -> 1..n] : \A i, j \in 1..n : f[i] = f[j] => i = j}

\* chunk i carries Text(i) or an empty body
Bodies(n) == {b \in [1..n -> {<<>>} \cup {Text(i) : i \in 1..n}] :
                \A i \in 1..n : b[i] \in {<<>>, Text(i)}}

Streams == UNION {[n : {n}, order : Perms(n), body : Bodies(n)] : n \in 1..MaxTotal}

InitStream ==
  /\ ADIdle
  /\ cfg \in {c \in ConfigsP : c.key}
  /\ watch = "frames"
  /\ stream \in Streams
  /\ sent = 0
  /\ emitted = 0
  /\ ConnIdle
  /\ PureIdle
  /\ CoInit({})
  /\ ClientInit({})

StreamDeliver ==
  /\ sent < stream.n
  /\ LET i == stream.order[sent + 1]
     IN HandleNotification(Payload(RC4, Chunk(i, stream.n, stream.body[i])))
  /\ sent' = sent + 1
  /\ emitted' = emitted + (IF note'.kind \in {"raw", "single", "assembled"} THEN 1 ELSE 0)
  /\ UNCHANGED <<stream, conn, coVars, pureVars>>

NextStream ==
  \/ \E outcome \in {"ok", "no_link", "no_notify"} : ConnectByAddress(outcome)
  \/ StreamDeliver

SpecStream == InitStream /\ [][NextStream]_vars

\* ======================================================================
\* Exchanges issued as the coordinator issues them: a call that reads
\* responses starts only when no other call on the client is in flight; a
\* fire-and-forget send (control command, time sync) starts at any time
\* ======================================================================
Idle == \A c \in DOMAIN pc : pc[c] \notin Suspended

\* a single frame and a one-chunk stream with an empty body
FramesS == {BodyA, Chunk(1, 1, <<>>)}
DataS == {Garbage} \cup {Payload(t, b) : t \in {RC4, AES_PORTABLE}, b \in FramesS}

InitSerial ==
  /\ ADIdle
  /\ cfg \in {c \in ConfigsP : c.key}
  /\ watch = "calls"
  /\ StreamIdle
  /\ ConnIdle
  /\ PureIdle
  /\ CoInit({})
  /\ ClientInit(1..MaxSerial)

NextSerial ==
  \/ \E outcome \in {"ok", "no_link", "no_notify"} : ConnectByAddress(outcome)
  \/ \E data \in DataS : Notification(data)
  \/ \E c \in DOMAIN pc, wait \in BOOLEAN : (wait => Idle) /\ SendCommand(c, wait)
  \/ \E c \in DOMAIN pc : SendWrite(c)
  \/ \E c \in DOMAIN pc : SendWake(c)
  \/ \E c \in DOMAIN pc : SendTimeout(c)
  \/ \E c \in DOMAIN pc : ProbeWake(c)
  \/ \E c \in DOMAIN pc : ProbeTimeout(c)
  \/ \E c \in DOMAIN pc, lg \in (IF Unlatched THEN BOOLEAN ELSE {FALSE}) :
       Idle /\ SendCommandCollectAll(c, lg)
  \/ \E c \in DOMAIN pc : CollectEnd(c)
  \/ \E c \in DOMAIN pc : CollectProbeWake(c)
  \/ \E c \in DOMAIN pc : CollectProbeEnd(c)

SpecSerial == InitSerial /\ [][NextSerial]_vars

\* the same caller, with the notifications of the waits recorded
InitProbe ==
  /\ ADIdle
  /\ cfg \in {c \in ConfigsP : c.key}
  /\ watch = "probes"
  /\ StreamIdle
  /\ ConnIdle
  /\ PureIdle
  /\ CoInit({})
  /\ ClientInit(1..MaxSerial)

SpecProbe == InitProbe /\ [][NextSerial]_vars

\* ======================================================================
\* A serial caller on a client whose link may drop between the calls
\* ======================================================================
InitOffline ==
  /\ ADIdle
  /\ cfg \in {c \in ConfigsP : c.key}
  /\ watch = "calls"
  /\ StreamIdle
  /\ ConnIdle
  /\ PureIdle
  /\ CoInit({})
  /\ ClientInit(1..MaxOffline)

\* one step of a call that is suspended
ExchangeStep(c) ==
  \/ SendWrite(c)
  \/ SendWake(c)
  \/ SendTimeout(c)
  \/ ProbeWake(c)
  \/ ProbeTimeout(c)
  \/ CollectEnd(c)
  \/ CollectProbeWake(c)
  \/ CollectProbeEnd(c)

\* the device answers with the first candidate's codec: a frame and a chunk
DataO == {Payload(RC4, b) : b \in FramesX}

NextOffline ==
  \/ ConnectByAddress("ok")
  \/ LinkDrop
  \/ \E data \in DataO : Notification(data)
  \/ \E c \in DOMAIN pc, wait \in BOOLEAN : (wait => Idle) /\ SendCommand(c, wait)
  \/ \E c \in DOMAIN pc, lg \in (IF Unlatched THEN BOOLEAN ELSE {FALSE}) :
       Idle /\ SendCommandCollectAll(c, lg)
  \/ \E c \in DOMAIN pc : ExchangeStep(c)

SpecOffline == InitOffline /\ [][NextOffline]_vars

\* ======================================================================
\* The serial caller with every write and every timer completing: a call
\* that is suspended in a sleep, a write or a timed wait is resumed.
\* ======================================================================
InitLive ==
  /\ ADIdle
  /\ cfg \in {c \in ConfigsP : c.key}
  /\ watch = "off"
  /\ StreamIdle
  /\ ConnIdle
  /\ PureIdle
  /\ CoInit({})
  /\ ClientInit(1..MaxSerial)

\* the device may answer with a frame, with an empty body, or with noise
DataL == {Garbage} \cup {Payload(RC4, b) : b \in FramesS}

NextLive ==
  \/ \E outcome \in {"ok", "no_link"} : ConnectByAddress(outcome)
  \/ \E data \in DataL : Notification(data)
  \/ \E c \in DOMAIN pc, wait \in BOOLEAN : (wait => Idle) /\ SendCommand(c, wait)
  \/ \E c \in DOMAIN pc, lg \in (IF Unlatched THEN BOOLEAN ELSE {FALSE}) :
       Idle /\ SendCommandCollectAll(c, lg)
  \/ \E c \in DOMAIN pc : ExchangeStep(c)

SpecLive ==
  /\ InitLive
  /\ [][NextLive]_vars
  /\ \A c \in 1..MaxSerial : WF_vars(ExchangeStep(c))

\* ======================================================================
\* connect / connect_by_address followed attempt by attempt
\* ======================================================================

\* connect, lines 210-231: the codec chosen from the device record and the
\* constructor arguments (c.key: device.encryption_key or self.encryption_key).
EncryptionByDevice(c, current) ==
  IF ~c.key THEN current
  ELSE IF c.device_type = "box" THEN Fixed(AES_BOX)
  ELSE IF c.model_code \in {20, 21} THEN Fixed(AES_PORTABLE)
  ELSE Fixed(RC4)

\* get_encryption_handler (crypto.py 179-194); override is the encryption_type
\* argument, NoType for None.  An override that names no handler falls
\* through to the device type.
GetEncryptionHandler(device_type, model_code, override) ==
  IF override \in EncTypes THEN Fixed(override)
  ELSE IF device_type = "box" THEN Fixed(AES_BOX)
  ELSE IF model_code # NoCode /\ model_code \in {20, 21} THEN Fixed(AES_PORTABLE)
  ELSE Fixed(RC4)

\* if attempt < retries: sleep and try again
MoreAttempts_Inclusive(n, retries) == n <= retries

MoreAttempts(n, retries) == n < retries

\* for attempt in range(1, retries + 1): the call is made
ConnectStart(by, retries) ==
  /\ conn = NoConn
  /\ link = "none"
  /\ conn' = [by |-> by, retries |-> retries,
              at |-> IF retries >= 1 THEN "try" ELSE "done",
              tried |-> <<>>, sleeps |-> 0,
              returned |-> IF retries >= 1 THEN "pending" ELSE "false"]
  /\ note' = NoNote
  /\ UNCHANGED <<adVars, watch, streamVars, clientVars, callVars, log, coVars, pureVars>>

\* One pass of the loop body: the old link is dropped, a new one is made, the
\* codec chosen and the subscription made; any exception ends the attempt in
\* the except clause.
ConnectAttempt(outcome) ==
  /\ conn.at = "try"
  /\ note' = NoNote
  /\ link' = (IF outcome = "no_link" THEN "down" ELSE "up")
  /\ subscribed' = (outcome = "ok")
  /\ encryption' = (IF outcome = "no_link" THEN encryption
                    ELSE IF conn.by = "address" THEN EncryptionByAddress(cfg, encryption)
                    ELSE EncryptionByDevice(cfg, encryption))
  /\ conn' = [conn EXCEPT
                !.tried = Append(@, outcome),
                !.at = IF outcome = "ok" THEN "done"
                       ELSE IF MoreAttempts(Len(conn.tried) + 1, conn.retries) THEN "backoff"
                       ELSE "done",
                !.sleeps = IF outcome # "ok" /\ MoreAttempts(Len(conn.tried) + 1, conn.retries)
                             THEN @ + 1 ELSE @,
                !.returned = IF outcome = "ok" THEN "true"
                             ELSE IF MoreAttempts(Len(conn.tried) + 1, conn.retries) THEN "pending"
                             ELSE "false"]
  /\ UNCHANGED <<adVars, watch, streamVars, cfg, callback, event, last_response, packet_buffer,
                 expected_packets, encryption_logged, callVars, log, coVars, pureVars>>

\* await asyncio.sleep(2.0) is over
ConnectBackoff ==
  /\ conn.at = "backoff"
  /\ conn' = [conn EXCEPT !.at = "try"]
  /\ note' = NoNote
  /\ UNCHANGED <<adVars, watch, streamVars, clientVars, callVars, log, coVars, pureVars>>

InitConnect ==
  /\ ADIdle
  /\ cfg \in Configs
  /\ watch = "off"
  /\ StreamIdle
  /\ ConnIdle
  /\ PureIdle
  /\ CoInit({})
  /\ ClientInit({})

NextConnect ==
  \/ \E by \in {"address", "device"}, retries \in 0..MaxRetries : ConnectStart(by, retries)
  \/ \E outcome \in {"ok", "no_link", "no_notify"} : ConnectAttempt(outcome)
  \/ ConnectBackoff

SpecConnect == InitConnect /\ [][NextConnect]_vars

\* ======================================================================
\* JackeryBleCoordinator: polls and control commands (coordinator.py)
\* ======================================================================

MaxTasks == 2

\* ---- the merge of one poll's responses (coordinator.py 116-140) ----

\* JSON texts as UTF-8 bytes
TextDict == <<123, 34, 114, 98, 34, 58, 50, 125>>               \* {"rb":2}
TextPairs == <<91, 91, 34, 95, 116, 34, 44, 49, 93, 93>>         \* [["_t",1]]
TextInt == <<55>>                                                \* 7

JsonError == [t |-> "error", doc |-> <<>>, pairs |-> <<>>]

\* bytes.decode('utf-8'): bytes below 128 always decode, a byte 0xF8..0xFF
\* never does; the texts used here have no byte in between.
Utf8Ok(bytes) == \A i \in DOMAIN bytes : bytes[i] < 128

\* json.loads on the texts used here; every other text is a parse error
JsonLoads(text) ==
  CASE text = TextDict -> [t |-> "dict", doc |-> ("rb" :> 2), pairs |-> <<>>]
    [] text = TextPairs -> [t |-> "list", doc |-> <<>>, pairs |-> << <<"_t", 1>> >>]
    [] text = TextInt -> [t |-> "int", doc |-> <<>>, pairs |-> <<>>]
    [] OTHER -> JsonError

\* k.startswith("_") on the keys used here
Internal(k) == k \in {"_actionId", "_t"}

\* {k: v for k, v in response.items() if not k.startswith("_")}
Public(d) == [k \in {x \in DOMAIN d : ~Internal(x)} |-> d[k]]

\* dict.update(other dict): later value wins
UpdateDoc(m, d) == [k \in DOMAIN m \cup DOMAIN d |-> IF k \in DOMAIN d THEN d[k] ELSE m[k]]

\* dict.update(list of [key, value] pairs)
RECURSIVE UpdatePairs(_, _)
UpdatePairs(m, pairs) ==
  IF pairs = <<>> THEN m
  ELSE UpdatePairs(UpdateDoc(m, (Head(pairs)[1] :> Head(pairs)[2])), Tail(pairs))

\* merged_data.update(data) for what json.loads returned; an int raises
\* TypeError, which the except clause of the loop body swallows
DictUpdate(m, v) ==
  CASE v.t = "dict" -> UpdateDoc(m, v.doc)
    [] v.t = "list" -> UpdatePairs(m, v.pairs)
    [] OTHER -> m

\* One pass of `for response in responses`, lines 118-136
MergeOne_Strict(m, r) ==
  IF r.kind = "dict" THEN UpdateDoc(m, Public(r.doc))
  ELSE IF Utf8Ok(r.raw) /\ JsonLoads(r.raw).t \in {"dict", "list"} THEN DictUpdate(m, JsonLoads(r.raw))
  ELSE <<>>

MergeOne(m, r) ==
  IF r.kind = "dict" THEN UpdateDoc(m, Public(r.doc))
  ELSE IF Utf8Ok(r.raw) THEN DictUpdate(m, JsonLoads(r.raw))
  ELSE m

RECURSIVE MergeFrom(_, _)
MergeFrom(m, rs) == IF rs = <<>> THEN m ELSE MergeFrom(MergeOne(m, Head(rs)), Tail(rs))

\* merged_data: dict = {} and the loop
Merge(rs) == MergeFrom(<<>>, rs)

\* if not merged_data: raise UpdateFailed
Unparsed_Never(merged) == FALSE

Unparsed(merged) == DOMAIN merged = {}

\* What the client hands to the coordinator: parsed dicts (with the
\* _actionId the parser adds), {"raw_hex": ...} dicts, and bare hex strings.
DictResponse(d) == [kind |-> "dict", doc |-> d, raw |-> <<>>]
RawResponse(kind, bytes) == [kind |-> kind, doc |-> <<>>, raw |-> bytes]

ResponsesSeen ==
  {DictResponse(("rb" :> 1) @@ ("ip" :> 1) @@ ("_actionId" :> 5)),
   DictResponse(("rb" :> 3) @@ ("_actionId" :> 6)),
   DictResponse(("_actionId" :> 5)),
   RawResponse("raw", TextDict), RawResponse("raw", TextPairs),
   RawResponse("raw", TextInt), RawResponse("raw", BodyA),
   RawResponse("str", TextDict)}

ResponseLists == UNION {[1..n -> ResponsesSeen] : n \in 0..MaxResp}

\* ---- the coordinator's tasks ----

nonCoVars == <<adVars, clientVars, callVars, note, watch, log, streamVars, conn, pureVars>>

\* self._client and self._client.is_connected, for a list of link states
Up(ls, k) == k # 0 /\ ls[k] = "up"

\* What write_gatt_char can do: return, or raise an error of the transport
QueryWriteOutcomes == {"ok", "RuntimeError", "BleakError"}

Finished(r, out, why) == [r EXCEPT !.pc = "done", !.out = out, !.why = why]

\* _async_update_data from line 103 to the write inside
\* (self._client is None after a shutdown: AttributeError, which line 110 does
\* not catch)
\* send_command_collect_all (ble_client.py 456-481): "Not connected" is a
\* RuntimeError and is caught at line 110; the write is not wrapped, so its
\* error reaches line 110 as it is.
PollBody(t, r, ls, cc, tr) ==
  IF coClient = 0
  THEN /\ task' = [task EXCEPT ![t] = Finished(r, "AttributeError", "no_client")]
       /\ coConnected' = cc
       /\ trace' = tr
  ELSE IF ~Up(ls, coClient)
  THEN /\ task' = [task EXCEPT ![t] = Finished(r, "UpdateFailed", "not_connected")]
       /\ coConnected' = FALSE
       /\ trace' = tr
  ELSE \E w \in QueryWriteOutcomes :
         /\ trace' = Append(tr, [what |-> "query", client |-> coClient, task |-> t, ok |-> w = "ok"])
         /\ task' = [task EXCEPT ![t] =
                       IF w = "ok" THEN [r EXCEPT !.pc = "collecting", !.target = coClient]
                       ELSE IF w = "RuntimeError" THEN Finished(r, "UpdateFailed", "write")
                       ELSE Finished(r, w, "write")]
         /\ coConnected' = (IF w = "RuntimeError" THEN FALSE ELSE cc)

\* send_control_command line 148 up to the sleep of send_command
\* (ble_client.py 399-415); its RuntimeError is caught at line 153
ControlBody(t, r, ls, cc, tr) ==
  /\ task' = [task EXCEPT ![t] =
                IF Up(ls, coClient) THEN [r EXCEPT !.pc = "ctl_sleep", !.target = coClient]
                ELSE Finished(r, "False", "not_connected")]
  /\ coConnected' = cc
  /\ trace' = tr

AfterEnsure(t, r, ls, cc, tr) ==
  IF r.kind = "poll" THEN PollBody(t, r, ls, cc, tr) ELSE ControlBody(t, r, ls, cc, tr)

\* A poll or a control command starts: _ensure_connected lines 68-80.  The
\* framework runs one refresh at a time; a control command comes from a
\* service call at any moment.
TaskStart(t, kind) ==
  /\ task[t].pc = "idle"
  /\ shut.pc = "idle"
  /\ \A u \in DOMAIN task : u < t => task[u].pc # "idle"
  /\ kind = "poll" => \A u \in DOMAIN task : task[u].kind = "poll" => task[u].pc = "done"
  /\ LET r == [NoTask EXCEPT !.kind = kind]
         id == Len(links) + 1
     IN IF Up(links, coClient)
        THEN /\ AfterEnsure(t, [r EXCEPT !.found_up = TRUE], links, coConnected, trace)
             /\ UNCHANGED <<coClient, links>>
        ELSE /\ coClient' = id
             /\ links' = Append(links, "new")
             /\ task' = [task EXCEPT ![t] = [r EXCEPT !.pc = "connecting", !.mine = id]]
             /\ UNCHANGED <<coConnected, trace>>
  /\ UNCHANGED <<shut, nonCoVars>>

\* connect_by_address returned on the client this task made: lines 80-95.
\* It returns False with the link down, or with the link up when start_notify
\* raised in the last attempt (ble_client.py 259-285).  The time sync goes to
\* whatever self._client is now.
ConnectReturn(t, outcome) ==
  /\ task[t].pc = "connecting"
  /\ LET r == task[t]
         id == r.mine
         ok == outcome = "ok"
         ls == [links EXCEPT ![id] = IF outcome = "no_link" THEN "down" ELSE "up"]
         tr == Append(trace, [what |-> "connected", client |-> id, task |-> t, ok |-> TRUE])
     IN /\ links' = ls
        /\ IF ~ok
           THEN /\ task' = [task EXCEPT ![t] =
                              Finished(r, IF r.kind = "poll" THEN "UpdateFailed" ELSE "False", "connect")]
                /\ coConnected' = FALSE
                /\ trace' = trace
           ELSE IF Up(ls, coClient)
           THEN /\ task' = [task EXCEPT ![t] = [r EXCEPT !.pc = "sync_sleep", !.target = coClient]]
                /\ coConnected' = TRUE
                /\ trace' = tr
           ELSE AfterEnsure(t, [r EXCEPT !.sync = "not_connected"], ls, TRUE, tr)
  /\ UNCHANGED <<coClient, shut, nonCoVars>>

\* The write of the TIME_SYNC command after sleep(0.1) (ble_client.py 415-425);
\* its failure is caught at line 92 and _ensure_connected returns True.
SyncWrite(t, ok) ==
  /\ task[t].pc = "sync_sleep"
  /\ ok => Up(links, task[t].target)
  /\ AfterEnsure(t, [task[t] EXCEPT !.sync = IF ok THEN "ok" ELSE "failed"], links, coConnected,
                 Append(trace, [what |-> "sync", client |-> task[t].target, task |-> t, ok |-> ok]))
  /\ UNCHANGED <<coClient, links, shut, nonCoVars>>

\* send_command_collect_all returned rs: lines 114-142
PollCollected(t, rs) ==
  /\ task[t].pc = "collecting"
  /\ LET r == [task[t] EXCEPT !.collected = TRUE, !.responses = rs]
     IN task' = [task EXCEPT ![t] =
                   IF rs = <<>> THEN Finished(r, "UpdateFailed", "empty")
                   ELSE IF Unparsed(Merge(rs)) THEN Finished(r, "UpdateFailed", "unparsed")
                   ELSE [Finished(r, "doc", "") EXCEPT !.doc = Merge(rs)]]
  /\ UNCHANGED <<coClient, coConnected, links, trace, shut, nonCoVars>>

\* send_command, ble_client.py 415-422: an error of the write is raised again
\* as RuntimeError
WriteRaises_Never(ok) == FALSE

WriteRaises(ok) == ~ok

\* The write of the control command after sleep(0.1); a failure is wrapped
\* into RuntimeError and caught at line 153.
CtlWrite(t, ok) ==
  /\ task[t].pc = "ctl_sleep"
  /\ ok => Up(links, task[t].target)
  /\ trace' = Append(trace, [what |-> "control", client |-> task[t].target, task |-> t, ok |-> ok])
  /\ task' = [task EXCEPT ![t] = IF WriteRaises(ok) THEN Finished(@, "False", "write")
                                 ELSE [@ EXCEPT !.pc = "ctl_rest"]]
  /\ UNCHANGED <<coClient, coConnected, links, shut, nonCoVars>>

\* sleep(0.5) and async_request_refresh are over: return True
CtlDone(t) ==
  /\ task[t].pc = "ctl_rest"
  /\ trace' = Append(trace, [what |-> "refresh", client |-> task[t].target, task |-> t, ok |-> TRUE])
  /\ task' = [task EXCEPT ![t] = Finished(@, "True", "")]
  /\ UNCHANGED <<coClient, coConnected, links, shut, nonCoVars>>

\* async_shutdown up to its first suspension (coordinator.py 157-162,
\* ble_client.py 289-304).  disconnect() suspends only if the link is up;
\* otherwise the whole call runs at once.
ShutdownStart ==
  /\ shut.pc = "idle"
  /\ IF coClient = 0
     THEN /\ shut' = [shut EXCEPT !.pc = "done"]
          /\ UNCHANGED <<coClient, coConnected, links>>
     ELSE IF links[coClient] = "up"
     THEN /\ shut' = [shut EXCEPT !.pc = "disconnecting", !.target = coClient]
          /\ UNCHANGED <<coClient, coConnected, links>>
     ELSE /\ shut' = [shut EXCEPT !.pc = "done", !.target = coClient, !.dropped = coClient]
          /\ links' = [links EXCEPT ![coClient] = "none"]
          /\ coClient' = 0
          /\ coConnected' = FALSE
  /\ UNCHANGED <<task, trace, nonCoVars>>

\* stop_notify, disconnect and sleep(0.3) are over, with or without an error:
\* disconnect() clears the client's fields, async_shutdown drops self._client
ShutdownEnd ==
  /\ shut.pc = "disconnecting"
  /\ shut' = [shut EXCEPT !.pc = "done", !.dropped = coClient]
  /\ links' = [links EXCEPT ![shut.target] = "none"]
  /\ coClient' = 0
  /\ coConnected' = FALSE
  /\ UNCHANGED <<task, trace, nonCoVars>>

\* The link of client k goes down
CoLinkDrop(k) ==
  /\ k \in DOMAIN links
  /\ links[k] = "up"
  /\ links' = [links EXCEPT ![k] = "down"]
  /\ UNCHANGED <<coClient, coConnected, task, trace, shut, nonCoVars>>

InitCoord ==
  /\ ADIdle
  /\ cfg \in {c \in Configs : c.key /\ c.model_code = NoCode /\ c.device_type = "portable"}
  /\ watch = "off"
  /\ StreamIdle
  /\ ConnIdle
  /\ PureIdle
  /\ ClientInit({})
  /\ CoInit(1..MaxTasks)

NextCoord ==
  \/ \E t \in 1..MaxTasks, kind \in {"poll", "control"} : TaskStart(t, kind)
  \/ \E t \in 1..MaxTasks, outcome \in {"ok", "no_link", "no_notify"} : ConnectReturn(t, outcome)
  \/ \E t \in 1..MaxTasks, ok \in BOOLEAN : SyncWrite(t, ok)
  \/ \E t \in 1..MaxTasks, rs \in {<<>>, <<DictResponse(("rb" :> 1) @@ ("_actionId" :> 5))>>} :
       PollCollected(t, rs)
  \/ \E t \in 1..MaxTasks, ok \in BOOLEAN : CtlWrite(t, ok)
  \/ \E t \in 1..MaxTasks : CtlDone(t)
  \/ \E k \in 1..MaxTasks : CoLinkDrop(k)
  \/ ShutdownStart
  \/ ShutdownEnd

SpecCoord == InitCoord /\ [][NextCoord]_vars

\* Control commands and a shutdown, on a coordinator that has not connected
\* yet, or whose earlier poll connected a client whose link is up or was lost
MaxControls == 1

InitControl ==
  /\ ADIdle
  /\ cfg \in {c \in Configs : c.key}
  /\ watch = "off"
  /\ StreamIdle
  /\ ConnIdle
  /\ PureIdle
  /\ ClientInit({})
  /\ links \in {<<>>, <<"up">>, <<"down">>}
  /\ coClient = Len(links)
  /\ coConnected = (links # <<>>)
  /\ task = [t \in 1..MaxControls |-> NoTask]
  /\ trace = <<>>
  /\ shut = NoShut

NextControl ==
  \/ \E t \in 1..MaxControls : TaskStart(t, "control")
  \/ \E t \in 1..MaxControls, outcome \in {"ok", "no_link", "no_notify"} : ConnectReturn(t, outcome)
  \/ \E t \in 1..MaxControls, ok \in BOOLEAN : SyncWrite(t, ok)
  \/ \E t \in 1..MaxControls, ok \in BOOLEAN : CtlWrite(t, ok)
  \/ \E t \in 1..MaxControls : CtlDone(t)
  \/ \E k \in 1..(MaxControls + 1) : CoLinkDrop(k)
  \/ ShutdownStart
  \/ ShutdownEnd

SpecControl == InitControl /\ [][NextControl]_vars

\* One poll at a time, with every list of responses
InitMerge ==
  /\ ADIdle
  /\ cfg \in {c \in Configs : c.key /\ c.model_code = NoCode /\ c.device_type = "portable"}
  /\ watch = "off"
  /\ StreamIdle
  /\ ConnIdle
  /\ PureIdle
  /\ ClientInit({})
  /\ CoInit({1})

NextMerge ==
  \/ TaskStart(1, "poll")
  \/ \E outcome \in {"ok", "no_link", "no_notify"} : ConnectReturn(1, outcome)
  \/ \E ok \in BOOLEAN : SyncWrite(1, ok)
  \/ \E rs \in ResponseLists : PollCollected(1, rs)
  \/ CoLinkDrop(1)

SpecMerge == InitMerge /\ [][NextMerge]_vars

\* ======================================================================
\* Bytes, CRC-16 and the command builder (crc.py, commands.py)
\* ======================================================================

\* a ^ b on non-negative integers
RECURSIVE BitXor(_, _)
BitXor(a, b) ==
  IF a = 0 THEN b
  ELSE IF b = 0 THEN a
  ELSE (((a % 2) + (b % 2)) % 2) + (2 * BitXor(a \div 2, b \div 2))

\* crc16_bytes, lines 18-22: the eight shifts for one byte
RECURSIVE CrcShift(_, _)
CrcShift(crc, n) ==
  IF n = 0 THEN crc
  ELSE LET next == IF crc % 2 = 1 THEN BitXor(crc \div 2, 40961) ELSE crc \div 2
       IN IF next >= 0 THEN CrcShift(next, n - 1) ELSE 0

\* crc16_bytes, lines 15-22: the register after all bytes, from 0xFFFF
RECURSIVE CrcOver(_, _)
CrcOver(crc, data) ==
  IF data = <<>> THEN crc
  ELSE LET next == CrcShift(BitXor(crc, Head(data) % 256), 8)
       IN IF next >= 0 THEN CrcOver(next, Tail(data)) ELSE 0

\* crc16 / crc16_bytes: the two bytes of the returned hex text, low byte first
\* (hex_crc[2:4] + hex_crc[0:2])
Crc16(data) == LET crc == CrcOver(65535, data) IN <<crc % 256, crc \div 256>>

\* str.encode('utf-8') for code points below 0x800
RECURSIVE Utf8(_)
Utf8(text) ==
  IF text = <<>> THEN <<>>
  ELSE IF Len(text) = 1
    THEN (IF text[1] < 128 THEN <<text[1]>>
          ELSE <<192 + (text[1] \div 64), 128 + (text[1] % 64)>>)
  ELSE LET half == Len(text) \div 2
       IN Utf8(SubSeq(text, 1, half)) \o Utf8(SubSeq(text, half + 1, Len(text)))

\* str(n) for n >= 0, as code points
RECURSIVE Decimal(_)
Decimal(n) == IF n < 10 THEN <<48 + n>> ELSE Decimal(n \div 10) \o <<48 + (n % 10)>>

\* compact_json({key: n}) = json.dumps(obj, separators=(',', ':')); with the
\* default separators the colon is followed by a space
CompactJson_Spaced(key, n) == <<123, 34>> \o key \o <<34, 58, 32>> \o Decimal(n) \o <<125>>

CompactJson(key, n) == <<123, 34>> \o key \o <<34, 58>> \o Decimal(n) \o <<125>>

\* CommandBuilder.__init__: PREFIX_BOX "DFED00", PREFIX_PORTABLE "DFEC00"
Prefix(device_type) == IF device_type = "box" THEN <<223, 237, 0>> ELSE <<223, 236, 0>>

\* _to_hex_byte: format(value & 0xFF, '02x')
ToHexByte_NoMask(value) == value

ToHexByte(value) == value % 256

\* build_command (body as code points; "" is falsy and gives no body bytes)
BuildCommand(device_type, action_id, msg_type, body) ==
  LET body_hex == IF body # <<>> THEN Utf8(body) ELSE <<>>
      body_len == Len(body_hex)
  IN Prefix(device_type) \o <<ToHexByte(action_id), ToHexByte(msg_type), ToHexByte(body_len)>>
       \o body_hex

\* ActionId / MsgType members used here
DEVICE_PROPERTY == 252
MSG_DEVICE_PROPERTY == 3
LIGHT_MODE == 7
SET_CONTROL == 4

QueryDeviceProperty(device_type) == BuildCommand(device_type, DEVICE_PROPERTY, MSG_DEVICE_PROPERTY, <<>>)

\* set_light_mode: key "lm"
SetLightMode(device_type, mode) ==
  BuildCommand(device_type, LIGHT_MODE, SET_CONTROL, CompactJson(<<108, 109>>, mode))

MaxMode == 3

\* a body of n letters
Letters(n) == [i \in 1..n |-> 97]

CommandBodies ==
  {<<>>, <<233>>, <<123, 125>>, Letters(255), Letters(256)}
    \cup {CompactJson(<<108, 109>>, m) : m \in 0..MaxMode}

CommandInputs ==
  [fn : {"build_command"}, device_type : {"portable", "box"},
   action_id : {LIGHT_MODE, DEVICE_PROPERTY, 256 + LIGHT_MODE}, msg_type : {SET_CONTROL},
   body : CommandBodies, mode : {0}]
  \cup [fn : {"set_light_mode"}, device_type : {"portable", "box"},
        action_id : {LIGHT_MODE}, msg_type : {SET_CONTROL}, body : {<<>>}, mode : 0..MaxMode]

BuildCommandCall ==
  /\ input.fn = "build_command"
  /\ output = NoOutput
  /\ output' = [fn |-> "build_command",
                frame |-> BuildCommand(input.device_type, input.action_id, input.msg_type, input.body)]
  /\ UNCHANGED <<input, devices_dict, adVars, clientVars, callVars, note, watch, log, streamVars,
                 conn, coVars>>

SetLightModeCall ==
  /\ input.fn = "set_light_mode"
  /\ output = NoOutput
  /\ output' = [fn |-> "set_light_mode", frame |-> SetLightMode(input.device_type, input.mode)]
  /\ UNCHANGED <<input, devices_dict, adVars, clientVars, callVars, note, watch, log, streamVars,
                 conn, coVars>>

InitCommand ==
  /\ ADIdle
  /\ cfg \in {c \in Configs : ~c.key}
  /\ watch = "off"
  /\ StreamIdle
  /\ ConnIdle
  /\ ClientInit({})
  /\ CoInit({})
  /\ input \in CommandInputs
  /\ output = NoOutput
  /\ devices_dict = <<>>

NextCommand == BuildCommandCall \/ SetLightModeCall

SpecCommand == InitCommand /\ [][NextCommand]_vars

\* ======================================================================
\* The codec handlers on bytes (crypto.py 16-162)
\* ======================================================================

MaxKeyLen == 17

\* a decoded key (base64.b64decode / bytes.fromhex already applied) of n bytes
KeyOfLen(n) == [i \in 1..n |-> (11 * i) % 256]

Zeros(n) == [i \in 1..n |-> 0]

\* JackeryEncryption.__init__ lines 59-62 for the AES handlers;
\* PortableRC4Encryption.__init__ keeps the decoded key as it is
KeyBytes(enc_type, key) ==
  IF enc_type = RC4 THEN key
  ELSE IF Len(key) > 16 THEN SubSeq(key, 1, 16)
  ELSE IF Len(key) < 16 THEN key \o Zeros(16 - Len(key))
  ELSE key

\* self.iv = self.key_bytes (line 63); the RC4 handler has no iv
IvOf(enc_type, key) == IF enc_type = RC4 THEN NoBody ELSE KeyBytes(enc_type, key)

HandlerInit ==
  /\ input.fn = "handler"
  /\ output = NoOutput
  /\ output' = [fn |-> "handler", key_bytes |-> KeyBytes(input.enc_type, input.key),
                iv |-> IvOf(input.enc_type, input.key)]
  /\ UNCHANGED <<input, devices_dict, adVars, clientVars, callVars, note, watch, log, streamVars,
                 conn, coVars>>

InitKey ==
  /\ ADIdle
  /\ cfg \in {c \in Configs : c.key /\ c.model_code = NoCode /\ c.device_type = "portable"}
  /\ watch = "off"
  /\ StreamIdle
  /\ ConnIdle
  /\ ClientInit({})
  /\ CoInit({})
  /\ input \in [fn : {"handler"}, enc_type : EncTypes, key : {KeyOfLen(n) : n \in 0..MaxKeyLen}]
  /\ output = NoOutput
  /\ devices_dict = <<>>

NextKey == HandlerInit

SpecKey == InitKey /\ [][NextKey]_vars

\* MAGIC_PREFIX: "DFED" for the box handler, "DFEC" for the portable ones
Magic(enc_type) == IF enc_type = AES_BOX THEN <<223, 237>> ELSE <<223, 236>>

\* RANDOM_SUFFIX_BYTES (the RC4 handler appends its one security byte)
SuffixBytes(enc_type) == IF enc_type = AES_BOX THEN 2 ELSE 1

\* min_length of decrypt in bytes: 36 or 16 hex digits for AES (line 87),
\* 16 hex digits for RC4 (line 146)
MinLength(enc_type) == IF enc_type = AES_BOX THEN 18 ELSE 8

\* xor_with_byte
XorWithByte(data, xor_byte) == [i \in 1..Len(data) |-> BitXor(data[i] % 256, xor_byte)]

\* rc4_crypt: XOR with a key stream that depends on the key and the position
\* only, so that applying it twice gives the data back.  The RC4 schedule
\* itself is replaced by a simple stream with the same dependence.
KeyStream(key, i) == (7 * key[((i - 1) % Len(key)) + 1] + 13 * i) % 256
StreamXor(data, key) == [i \in 1..Len(data) |-> BitXor(data[i], KeyStream(key, i))]

\* AES-128-CBC with iv = key on whole blocks: a keyed bijection that keeps
\* the length.  The block cipher itself is replaced by a bytewise shift.
BlockEncrypt(data, key) == [i \in 1..Len(data) |-> (data[i] + key[((i - 1) % 16) + 1] + 1) % 256]
BlockDecrypt(data, key) == [i \in 1..Len(data) |-> (data[i] + 511 - key[((i - 1) % 16) + 1]) % 256]

\* Crypto.Util.Padding.pad / unpad, pkcs7, block size 16
Pad(data) == LET p == 16 - (Len(data) % 16) IN data \o [i \in 1..p |-> p]
PadOk(data) ==
  /\ Len(data) > 0
  /\ Len(data) % 16 = 0
  /\ LET p == data[Len(data)]
     IN /\ p \in 1..16
        /\ \A i \in (Len(data) - p + 1)..Len(data) : data[i] = p
Unpad(data) == SubSeq(data, 1, Len(data) - data[Len(data)])

\* the random suffix as bytes: format(rnd, '04x') or format(rnd, '02x')
Suffix(enc_type, rnd) == IF SuffixBytes(enc_type) = 2 THEN <<rnd \div 256, rnd % 256>> ELSE <<rnd>>

\* encrypt up to the plaintext that goes into the cipher: lines 69-76 (AES),
\* lines 131-138 (RC4)
WirePlain(enc_type, data, rnd) ==
  IF enc_type = RC4
  THEN LET masked == XorWithByte(data, rnd) \o <<rnd>> IN masked \o Crc16(masked)
  ELSE LET with_suffix == data \o Suffix(enc_type, rnd) IN with_suffix \o Crc16(with_suffix)

\* the cipher step of encrypt: lines 77-80 (AES), 139-140 (RC4)
Cipher(enc_type, key, plain) ==
  IF enc_type = RC4 THEN StreamXor(plain, KeyBytes(RC4, key))
  ELSE BlockEncrypt(Pad(plain), KeyBytes(enc_type, key))

Encrypt(enc_type, key, data, rnd) == Cipher(enc_type, key, WirePlain(enc_type, data, rnd))

\* calculated_crc.upper() != expected_crc.upper()
CrcMatches_Always(data, expected) == TRUE

CrcMatches(data, expected) == Crc16(data) = expected

\* JackeryEncryption.decrypt, lines 82-103; every exception gives None
DecryptAES(enc_type, key, encrypted_data) ==
  LET padded == BlockDecrypt(encrypted_data, KeyBytes(enc_type, key))
  IN IF ~PadOk(padded) THEN NoBody
     ELSE LET decrypted == Unpad(padded)
              n == Len(decrypted)
          IN IF n < MinLength(enc_type) THEN NoBody
             ELSE IF SubSeq(decrypted, 1, 2) # Magic(enc_type) THEN NoBody
             ELSE IF ~CrcMatches(SubSeq(decrypted, 1, n - 2), SubSeq(decrypted, n - 1, n))
               THEN NoBody
             ELSE SubSeq(decrypted, 3, n - (SuffixBytes(enc_type) + 2))

\* PortableRC4Encryption.decrypt, lines 142-162; an empty key raises inside
\* rc4_crypt and gives None
DecryptRC4(key, encrypted_data) ==
  IF KeyBytes(RC4, key) = <<>> THEN NoBody
  ELSE LET decrypted == StreamXor(encrypted_data, KeyBytes(RC4, key))
           n == Len(decrypted)
       IN IF n < MinLength(RC4) THEN NoBody
          ELSE IF ~CrcMatches(SubSeq(decrypted, 1, n - 2), SubSeq(decrypted, n - 1, n))
            THEN NoBody
          ELSE LET decoded == XorWithByte(SubSeq(decrypted, 1, n - 3), decrypted[n - 2])
               IN IF SubSeq(decoded, 1, 2) # Magic(RC4) THEN NoBody
                  ELSE SubSeq(decoded, 3, Len(decoded))

DecryptBytes(enc_type, key, encrypted_data) ==
  IF enc_type = RC4 THEN DecryptRC4(key, encrypted_data)
  ELSE DecryptAES(enc_type, key, encrypted_data)

\* the key derive_encryption_key gives: 22 bytes
DeviceKey == KeyOfLen(22)

DeviceTypeOf(enc_type) == IF enc_type = AES_BOX THEN "box" ELSE "portable"

\* random.randint(1, 65535) or random.randint(1, 255)
Masks(enc_type) == IF SuffixBytes(enc_type) = 2 THEN {1, 4660, 65535} ELSE {1, 90, 255}

\* frames of the command builder for the handler's device type
BuiltFrames(enc_type) ==
  {QueryDeviceProperty(DeviceTypeOf(enc_type))}
    \cup {SetLightMode(DeviceTypeOf(enc_type), m) : m \in 0..MaxMode}

\* What can arrive: the encryption of a frame as the device makes it, or of
\* one with the other magic, or with a wrong CRC trailer, or a ciphertext
\* that lost its last byte, or that has a byte too many
Arrivals(enc_type) ==
  LET frames == {SetLightMode(DeviceTypeOf(enc_type), 3),
                 BuildCommand(DeviceTypeOf(enc_type), DEVICE_PROPERTY, MSG_DEVICE_PROPERTY, Letters(12))}
      plain(f) == WirePlain(enc_type, f, 90)
      other(f) == Magic(IF enc_type = AES_BOX THEN RC4 ELSE AES_BOX) \o SubSeq(f, 3, Len(f))
      badcrc(p) == [p EXCEPT ![Len(p)] = (@ + 1) % 256]
      good(f) == Cipher(enc_type, DeviceKey, plain(f))
  IN UNION {{good(f),
             Cipher(enc_type, DeviceKey, plain(other(f))),
             Cipher(enc_type, DeviceKey, badcrc(plain(f))),
             SubSeq(good(f), 1, Len(good(f)) - 1),
             good(f) \o <<0>>} : f \in frames}

NotDecrypted == <<-2>>

CipherInputs ==
  UNION {[fn : {"roundtrip"}, enc_type : {v}, frame : BuiltFrames(v), rnd : Masks(v),
          bytes : {<<>>}] : v \in EncTypes}
    \cup UNION {[fn : {"received"}, enc_type : {v}, frame : {<<>>}, rnd : {0},
                 bytes : Arrivals(v)] : v \in EncTypes}

\* handler.encrypt(frame) with the random number drawn
EncryptCall ==
  /\ input.fn = "roundtrip"
  /\ output = NoOutput
  /\ output' = [fn |-> "roundtrip", enc |-> Encrypt(input.enc_type, DeviceKey, input.frame, input.rnd),
                dec |-> NotDecrypted]
  /\ UNCHANGED <<input, devices_dict, adVars, clientVars, callVars, note, watch, log, streamVars,
                 conn, coVars>>

\* handler.decrypt on what encrypt returned, or on what arrived
DecryptCall ==
  /\ \/ input.fn = "roundtrip" /\ output # NoOutput /\ output.dec = NotDecrypted
     \/ input.fn = "received" /\ output = NoOutput
  /\ LET enc == IF input.fn = "roundtrip" THEN output.enc ELSE input.bytes
     IN output' = [fn |-> input.fn, enc |-> enc, dec |-> DecryptBytes(input.enc_type, DeviceKey, enc)]
  /\ UNCHANGED <<input, devices_dict, adVars, clientVars, callVars, note, watch, log, streamVars,
                 conn, coVars>>

InitCipher ==
  /\ ADIdle
  /\ cfg \in {c \in Configs : c.key /\ c.model_code = NoCode /\ c.device_type = "portable"}
  /\ watch = "off"
  /\ StreamIdle
  /\ ConnIdle
  /\ ClientInit({})
  /\ CoInit({})
  /\ input \in CipherInputs
  /\ output = NoOutput
  /\ devices_dict = <<>>

NextCipher == EncryptCall \/ DecryptCall

SpecCipher == InitCipher /\ [][NextCipher]_vars

\* ======================================================================
\* Advertisement decoding and key derivation
\* (ble_client.py 116-191, key_derivation.py 52-114)
\* ======================================================================

\* SALT_RC4 = "LYx*G!6u9#" and SALT_KEY = "6*SY1c5B9@" as character codes
SALT_RC4 == <<76, 89, 120, 42, 71, 33, 54, 117, 57, 35>>
SALT_KEY == <<54, 42, 83, 89, 49, 99, 53, 66, 57, 64>>

\* base64.b64encode: the 6-bit digits of the text, 64 for the '=' padding
Base64(bytes) ==
  LET n == Len(bytes)
      at(i) == IF i <= n THEN bytes[i] ELSE 0
      digit(g, k) ==
        LET a == at((3 * g) + 1)
            b == at((3 * g) + 2)
            c == at((3 * g) + 3)
        IN CASE k = 1 -> a \div 4
             [] k = 2 -> ((a % 4) * 16) + (b \div 16)
             [] k = 3 -> IF (3 * g) + 2 > n THEN 64 ELSE ((b % 16) * 4) + (c \div 64)
             [] k = 4 -> IF (3 * g) + 3 > n THEN 64 ELSE c % 64
  IN [i \in 1..(4 * ((n + 2) \div 3)) |-> digit((i - 1) \div 4, ((i - 1) % 4) + 1)]

\* the last n items of a sequence: s[-n:]
Last(s, n) == IF Len(s) <= n THEN s ELSE SubSeq(s, Len(s) - n + 1, Len(s))

\* id_swapped[2:] of format(mfr_id, '04x'): the high byte of the id
SnPart1Byte(mfr_id) == (mfr_id \div 256) % 256

\* device_sn[0:3] + device_sn[-5:] + SALT_RC4
AdvertRc4Key(device_sn) == SubSeq(device_sn, 1, 3) \o Last(device_sn, 5) \o SALT_RC4

\* derive_encryption_key; lines 182-188 of the client do the same
DeriveEncryptionKey(device_sn, device_guid) == Base64(Last(device_sn, 6) \o device_guid \o SALT_KEY)

NoneTuple == [key |-> NoBody, sn |-> NoBody, model_code |-> NoCode]

\* if len(device_sn) < 8: return None, None, None
SnTooShort_Never(device_sn) == FALSE

SnTooShort(device_sn) == Len(device_sn) < 8

\* JackeryBleClient._extract_key_from_advertisement on the bytes found under
\* the service UUID; bytes that are not ASCII are dropped from the SN
\* (errors='ignore')
ExtractKeyFromAdvertisement(mfr_id, mfr_bytes, svc_bytes) ==
  IF Len(svc_bytes) < 14 THEN NoneTuple
  ELSE LET part1 == IF SnPart1Byte(mfr_id) < 128 THEN <<SnPart1Byte(mfr_id)>> ELSE <<>>
           device_sn == part1 \o SelectSeq(mfr_bytes, LAMBDA b : b < 128)
       IN IF SnTooShort(device_sn) THEN NoneTuple
          ELSE LET decrypted == StreamXor(SubSeq(svc_bytes, 1, 14), AdvertRc4Key(device_sn))
                   data_for_crc == SubSeq(decrypted, 1, 12)
                   decoded == XorWithByte(SubSeq(data_for_crc, 1, 11), data_for_crc[12])
               IN [key |-> DeriveEncryptionKey(device_sn, SubSeq(decoded, 3, 8)),
                   sn |-> device_sn,
                   model_code |-> (256 * decoded[1]) + decoded[2]]

\* parse_manufacturer_data: the SN, model code and GUID, or None
ParseManufacturerData(mfr_id, mfr_bytes, svc_bytes) ==
  IF SnPart1Byte(mfr_id) >= 128 \/ mfr_bytes = <<>> \/ \E i \in 1..Len(mfr_bytes) : mfr_bytes[i] >= 128
    THEN NoneTuple
  ELSE LET device_sn == <<SnPart1Byte(mfr_id)>> \o mfr_bytes
       IN IF Len(device_sn) # 15 \/ Len(svc_bytes) # 14 THEN NoneTuple
          ELSE LET decrypted == StreamXor(svc_bytes, AdvertRc4Key(device_sn))
                   data_part == SubSeq(decrypted, 1, 12)
               IN IF Crc16(data_part) # SubSeq(decrypted, 13, 14) THEN NoneTuple
                  ELSE LET decoded == XorWithByte(SubSeq(data_part, 1, 11), data_part[12])
                       IN [key |-> SubSeq(decoded, 3, 8),
                           sn |-> device_sn,
                           model_code |-> (256 * decoded[1]) + decoded[2]]

\* derive_key_from_advertisement, with the SN and model code of the parse
DeriveKeyFromAdvertisement(mfr_id, mfr_bytes, svc_bytes) ==
  LET adv_data == ParseManufacturerData(mfr_id, mfr_bytes, svc_bytes)
  IN IF adv_data = NoneTuple THEN NoneTuple
     ELSE [adv_data EXCEPT !.key = DeriveEncryptionKey(adv_data.sn, adv_data.key)]

\* the rest of a serial number after its first character, n characters
SnTail(n) == [i \in 1..n |-> 48 + (i % 10)]

\* The 14 bytes a device advertises: model code, GUID, battery level and
\* reset mark masked with one byte, the mask, the CRC (or a wrong one),
\* RC4 under the key of the serial number; then cut or extended to len bytes
ServiceData(adv, crc_ok) ==
  LET device_sn == <<SnPart1Byte(adv.mfr_id)>> \o adv.mfr_bytes
      fields == <<adv.model \div 256, adv.model % 256, 161, 162, 163, 164, 165, 166, 72, 0, 1>>
      masked == XorWithByte(fields, adv.mask) \o <<adv.mask>>
      crc == Crc16(masked)
      trailer == IF crc_ok THEN crc ELSE <<crc[1], (crc[2] + 1) % 256>>
      blob == StreamXor(masked \o trailer, AdvertRc4Key(device_sn)) \o <<0>>
  IN SubSeq(blob, 1, adv.svc_len)

Adverts ==
  [mfr_id : {19019, 49995}, mfr_bytes : {SnTail(6), SnTail(9), SnTail(14)}, model : {5, 20},
   mask : {90}, crc_ok : BOOLEAN, svc_len : {13, 14, 15}]

NotRun == [key |-> <<>>, sn |-> <<>>, model_code |-> NoCode]

ExtractKeyCall ==
  /\ input.fn = "advert"
  /\ output.extracted = NotRun
  /\ output' = [output EXCEPT !.extracted =
                  ExtractKeyFromAdvertisement(input.adv.mfr_id, input.adv.mfr_bytes,
                                              ServiceData(input.adv, input.adv.crc_ok))]
  /\ UNCHANGED <<input, devices_dict, adVars, clientVars, callVars, note, watch, log, streamVars,
                 conn, coVars>>

DeriveKeyCall ==
  /\ input.fn = "advert"
  /\ output.derived = NotRun
  /\ output' = [output EXCEPT !.derived =
                  DeriveKeyFromAdvertisement(input.adv.mfr_id, input.adv.mfr_bytes,
                                             ServiceData(input.adv, input.adv.crc_ok))]
  /\ UNCHANGED <<input, devices_dict, adVars, clientVars, callVars, note, watch, log, streamVars,
                 conn, coVars>>

InitAdvert ==
  /\ ADIdle
  /\ cfg \in {c \in Configs : c.key /\ c.model_code = NoCode /\ c.device_type = "portable"}
  /\ watch = "off"
  /\ StreamIdle
  /\ ConnIdle
  /\ ClientInit({})
  /\ CoInit({})
  /\ input \in [fn : {"advert"}, adv : Adverts]
  /\ output = [fn |-> "advert", extracted |-> NotRun, derived |-> NotRun]
  /\ devices_dict = <<>>

\* ======================================================================
\* Scanning (ble_client.py 75-114)
\* ======================================================================

MaxAdverts == 2

LowerCase == <<"a", "b", "c", "d", "e", "f", "g", "h", "i", "j", "k", "l", "m",
               "n", "o", "p", "q", "r", "s", "t", "u", "v", "w", "x", "y", "z">>
UpperCase == <<"A", "B", "C", "D", "E", "F", "G", "H", "I", "J", "K", "L", "M",
               "N", "O", "P", "Q", "R", "S", "T", "U", "V", "W", "X", "Y", "Z">>

\* str.upper() on a name given as its characters
UpperName(name) ==
  [i \in 1..Len(name) |->
     IF \E k \in 1..26 : LowerCase[k] = name[i]
     THEN UpperCase[CHOOSE k \in 1..26 : LowerCase[k] = name[i]]
     ELSE name[i]]

\* sub in name
Contains(sub, name) ==
  \E k \in 0..(Len(name) - Len(sub)) : SubSeq(name, k + 1, k + Len(sub)) = sub

StartsWith(name, prefix) ==
  Len(prefix) <= Len(name) /\ SubSeq(name, 1, Len(prefix)) = prefix

JACKERY_DEVICE_NAMES ==
  {<<"H", "T">>, <<"J", "A", "C", "K", "E", "R", "Y">>, <<"J", "K">>,
   <<"E", "X", "P", "L", "O", "R", "E", "R">>}

\* is_jackery of detection_callback; an empty name_filter is no filter
IsJackery(name, name_filter) ==
  LET name_upper == UpperName(name)
  IN IF name_filter # <<>>
     THEN Contains(UpperName(name_filter), name_upper) \/ name_upper = UpperName(name_filter)
     ELSE \E prefix \in JACKERY_DEVICE_NAMES :
            StartsWith(name_upper, prefix) \/ Contains(prefix, name_upper)

\* device.address not in devices_dict
Known_Never(address, dict) == FALSE

Known(address, dict) == \E i \in 1..Len(dict) : dict[i].address = address

\* an advertisement without manufacturer and service data
NoData == [mfr_id |-> 0, mfr_bytes |-> <<>>, model |-> 0, mask |-> 0, crc_ok |-> FALSE, svc_len |-> 0]

\* the JackeryDevice built from an advertisement, lines 92-107
JackeryDeviceOf(adv) ==
  LET extracted == IF adv.data # NoData
                   THEN ExtractKeyFromAdvertisement(adv.data.mfr_id, adv.data.mfr_bytes,
                                                    ServiceData(adv.data, adv.data.crc_ok))
                   ELSE NoneTuple
  IN [name |-> adv.name, address |-> adv.address, rssi |-> adv.rssi,
      device_type |-> IF Contains(<<"B", "O", "X">>, UpperName(adv.name)) THEN "box" ELSE "portable",
      encryption_key |-> extracted.key, device_sn |-> extracted.sn,
      model_code |-> extracted.model_code, data |-> adv.data]

\* device.name is None for the empty name
ScanNames == {<<>>, <<"H", "T", "1">>, <<"j", "k", " ", "B", "o", "x">>, <<"P", "h", "o", "n", "e">>}

ScanAdverts ==
  {[address |-> a, name |-> n, rssi |-> v.rssi, data |-> v.data] :
     a \in {"AA:01", "AA:02"}, n \in ScanNames,
     v \in {[rssi |-> -60, data |-> NoData],
            [rssi |-> -70, data |-> [mfr_id |-> 19019, mfr_bytes |-> SnTail(14), model |-> 20,
                                     mask |-> 90, crc_ok |-> TRUE, svc_len |-> 14]]}}

\* the body of detection_callback: devices_dict after one advertisement
DetectedInto(dict, adv, name_filter) ==
  IF IsJackery(adv.name, name_filter) /\ ~Known(adv.address, dict)
    THEN Append(dict, JackeryDeviceOf(adv))
    ELSE dict

\* detection_callback for one advertisement while the scanner runs
Detect(adv) ==
  /\ input.fn = "scan"
  /\ output = NoOutput
  /\ Len(input.heard) < MaxAdverts
  /\ input' = [input EXCEPT !.heard = Append(@, adv)]
  /\ devices_dict' = DetectedInto(devices_dict, adv, input.name_filter)
  /\ UNCHANGED <<output, adVars, clientVars, callVars, note, watch, log, streamVars, conn, coVars>>

\* scanner.stop() and return list(devices_dict.values())
ScanReturn ==
  /\ input.fn = "scan"
  /\ output = NoOutput
  /\ output' = [fn |-> "scan", devices |-> devices_dict]
  /\ UNCHANGED <<input, devices_dict, adVars, clientVars, callVars, note, watch, log, streamVars,
                 conn, coVars>>

InitScan ==
  /\ ADIdle
  /\ cfg \in {c \in Configs : c.key /\ c.model_code = NoCode /\ c.device_type = "portable"}
  /\ watch = "off"
  /\ StreamIdle
  /\ ConnIdle
  /\ ClientInit({})
  /\ CoInit({})
  /\ input \in [fn : {"scan"}, name_filter : {<<>>, <<"b", "o", "x">>}, heard : {<<>>}]
  /\ output = NoOutput
  /\ devices_dict = <<>>

NextScan == (\E adv \in ScanAdverts : Detect(adv)) \/ ScanReturn

SpecScan == InitScan /\ [][NextScan]_vars

\* ======================================================================
\* One advertisement through both decoders and through the scan callback
\* ======================================================================

\* detection_callback of a scan that has found nothing yet, for a device
\* named "HT1" that advertises input.adv
AdvertDetect ==
  /\ input.fn = "advert"
  /\ devices_dict = <<>>
  /\ devices_dict' = DetectedInto(<<>>, [address |-> "AA:01", name |-> <<"H", "T", "1">>,
                                         rssi |-> -60, data |-> input.adv], <<>>)
  /\ UNCHANGED <<input, output, adVars, clientVars, callVars, note, watch, log, streamVars,
                 conn, coVars>>

NextAdvert == ExtractKeyCall \/ DeriveKeyCall \/ AdvertDetect

SpecAdvert == InitAdvert /\ [][NextAdvert]_vars

\* ======================================================================
\* Properties
\* ======================================================================

\* ---- C1.  Exchanges on one client are serialised: no two calls are between
\* their start and their completion or timeout at the same time.
C1_Serialised == Cardinality({c \in DOMAIN pc : pc[c] \in Suspended}) <= 1

\* ---- C2.  send_command_collect_all leaves the callback slot as it found it on
\* every exit path: in the step in which a collecting call ends (by return, by
\* an exception of the write, or by cancellation) the slot holds the value it
\* held when the call was made.
C2_CallbackRestored ==
  [][\A c \in DOMAIN pc :
       (op'[c] = "collect" /\ pc[c] # "done" /\ pc'[c] = "done")
         => callback' = (IF pc[c] = "new" THEN callback ELSE orig[c])]_vars

\* ---- C3.  As claimed: a decrypt that returns None leaves the latch as it was
\* before the call.
C3_NullKeepsLatch ==
  (adCall.op = "decrypt" /\ adCall.result = NoBody) => adDetected = adCall.pre

\* C3, as the code has it: after a decrypt that returns None the latch is unset
\* (an unset latch stays unset; a set latch has been cleared).
C3_NullLeavesUnlatched ==
  (adCall.op = "decrypt" /\ adCall.result = NoBody) => adDetected = NoType

\* a latched object returned None
C3_Witness ==
  adCall.op = "decrypt" /\ adCall.result = NoBody /\ adCall.pre # NoType

\* ---- C10.  decrypt returns the body of the latched handler if that handler
\* decodes the input; otherwise it returns the body of the first candidate in
\* list order that decodes it, or None (latch cleared) if none does; whenever
\* the result is not None the latch afterwards is the handler that produced it.
C10_LatchedFirstThenListOrder ==
  adCall.op = "decrypt" =>
    LET hs == Handlers(adType)
        pre == adCall.pre
        data == adCall.data
        latchedDecodes == pre # NoType /\ HandlerDecrypt(pre, data) # NoBody
        decoders == {i \in DOMAIN hs : HandlerDecrypt(hs[i], data) # NoBody}
    IN /\ latchedDecodes =>
            adCall.result = HandlerDecrypt(pre, data) /\ adDetected = pre
       /\ (~latchedDecodes /\ decoders # {}) =>
            /\ adDetected = hs[Min(decoders)]
            /\ adCall.result = HandlerDecrypt(adDetected, data)
            /\ \A i \in DOMAIN hs : i < Min(decoders) => HandlerDecrypt(hs[i], data) = NoBody
       /\ (~latchedDecodes /\ decoders = {}) =>
            adCall.result = NoBody /\ adDetected = NoType
       /\ adCall.result # NoBody =>
            adDetected # NoType /\ HandlerDecrypt(adDetected, data) = adCall.result

\* the latched handler failed and a later candidate of the list took the latch
C10_Witness ==
  /\ adCall.op = "decrypt"
  /\ adCall.pre = RC4
  /\ adDetected = AES_PORTABLE
  /\ adCall.result # NoBody

\* ---- C4.  A multi-packet assembly completes only when, with the chunk just
\* stored, the buffer holds a chunk for every index 1..total of that chunk's
\* header.
C4_CompleteOnlyWhenAllPresent ==
  note.kind = "assembled" => (1..TotalPackets(note.body)) \subseteq note.idxs

\* ---- C5.  Every exchange starts with the packet buffer cleared: in the step
\* in which a call on a connected client starts an exchange the buffer is empty
\* afterwards.
C5_BufferClearedAtStart ==
  [][\A c \in DOMAIN pc :
       (pc[c] = "new" /\ pc'[c] \in Suspended) => packet_buffer' = <<>>]_vars

\* ---- C6.  Right after a notification that completed an assembly the buffer is
\* empty and the expected total is 0.
C6_EmptyAfterAssembly ==
  note.kind = "assembled" => (packet_buffer = <<>> /\ expected_packets = 0)

\* an assembly of two chunks has just completed
C6_Witness ==
  /\ note.kind = "assembled"
  /\ Cardinality(note.idxs) >= 2
  /\ last_response # <<>>

\* ---- C7.  A stream of chunks 1..n (n >= 1) sent in any order to a client with
\* an empty buffer: nothing is emitted before the last chunk, exactly one body
\* is emitted with it, and that body is the chunk bodies concatenated in
\* ascending index order.
RECURSIVE Ascending(_, _)
Ascending(body, n) ==
  IF n = 0 THEN <<>> ELSE Ascending(body, n - 1) \o body[n]

C7_OneBodyInIndexOrder ==
  /\ (sent < stream.n) =>
       /\ emitted = 0
       /\ ~event
       /\ last_response = NoBody
       /\ DOMAIN packet_buffer = {stream.order[k] : k \in 1..sent}
  /\ (stream.n >= 1 /\ sent = stream.n) =>
       /\ emitted = 1
       /\ event
       /\ note.kind = "assembled"
       /\ last_response = Ascending(stream.body, stream.n)

\* a stream of at least two chunks that arrived last chunk first, bodies not
\* empty, has been assembled
C7_Witness ==
  /\ stream.n >= 2
  /\ sent = stream.n
  /\ stream.order[1] = stream.n
  /\ \A i \in 1..stream.n : stream.body[i] # <<>>
  /\ emitted = 1

\* ---- C8.  A notification that decrypts takes the single-packet branch (body
\* stored as last response, signal set) if and only if the first byte of the
\* body is not 0x80; with a first byte of 0x80 it takes the multi-packet branch
\* and the body is not stored as last response.
C8_SingleIffNot80 ==
  /\ note.kind = "single" =>
       (note.body[1] # 128 /\ last_response = note.body /\ event)
  /\ note.kind \in {"malformed", "chunk", "assembled"} =>
       (note.body[1] = 128 /\ last_response # note.body)

\* a body whose first byte is not 0x80 and whose second byte is took the
\* single-packet branch
C8_Witness ==
  note.kind = "single" /\ note.body[2] = 128 /\ last_response = note.body

\* ---- C9.  The notification path sets the signal exactly when a complete
\* decrypted frame arrives: a single-packet frame or a chunk with which every
\* index 1..total is present sets it; any other chunk and a notification that
\* does not decrypt leave the signal and the last response as they were.
C9_SignalOnCompleteFrame ==
  [][LET k == note'.kind
         total == TotalPackets(note'.body)
         final == /\ k \in {"chunk", "assembled"}
                  /\ total >= 1
                  /\ (1..total) \subseteq note'.idxs
     IN /\ (k = "single" \/ final) => event'
        /\ (k \in {"undecoded", "malformed", "chunk", "assembled"} /\ ~final) =>
             (event' = event /\ last_response' = last_response)]_vars

\* ---- C11.  As claimed: when the 2.0 s wait of a probing single-response
\* exchange ends with the signal set (a response has arrived for the candidate
\* just written), the exchange stops there: it latches that candidate and
\* returns the response without another write.
C11_StopsAtFirstResponse ==
  [][\A c \in DOMAIN pc :
       (pc[c] = "ad_wait" /\ event /\ (pc'[c] # "ad_wait" \/ idx'[c] # idx[c])) =>
         /\ pc'[c] = "done"
         /\ result'[c] = [how |-> "returned", value |-> last_response, list |-> <<>>]
         /\ encryption'.detected = EncTypesOf(encryption)[idx[c]]
         /\ log'[c].writes = log[c].writes]_vars

\* C11, as the code has it: the candidates are written once each in list order;
\* the exchange stops at the first candidate whose wait ends with a non-empty
\* response, latches it and returns the response without a further write; it
\* moves to the next candidate when the wait times out or ends with an empty
\* response (then at once, without waiting out the 2.0 s); after the last
\* candidate it returns no response, having written each candidate once.
C11_ProbeInOrderStopAtNonEmpty ==
  [][\A c \in DOMAIN pc :
       LET hs == EncTypesOf(encryption)
       IN /\ (pc[c] = "new" /\ op'[c] = "send" /\ connected /\ Unlatched) =>
               (idx'[c] = 1 /\ log'[c].writes = <<hs[1]>>)
          /\ (op'[c] = "send" /\ idx'[c] >= 1) =>
               log'[c].writes = SubSeq(hs, 1, idx'[c])
          /\ (pc[c] = "ad_wait" /\ (pc'[c] # "ad_wait" \/ idx'[c] # idx[c])) =>
               IF event /\ Truthy(last_response)
                 THEN /\ pc'[c] = "done"
                      /\ result'[c] = [how |-> "returned", value |-> last_response,
                                       list |-> <<>>]
                      /\ encryption'.detected = hs[idx[c]]
                      /\ log'[c].writes = log[c].writes
               ELSE IF idx[c] < Len(hs)
                 THEN /\ idx'[c] = idx[c] + 1
                      /\ log'[c].writes = Append(log[c].writes, hs[idx[c] + 1])
                      /\ (pc'[c] = "ad_wait" \/ result'[c].how = "raised")
               ELSE /\ pc'[c] = "done"
                    /\ result'[c] = [how |-> "returned", value |-> NoBody, list |-> <<>>]
                    /\ log'[c].writes = hs]_vars

\* a probing exchange returned a response at its second candidate
C11_Witness ==
  \E c \in DOMAIN pc :
    /\ op[c] = "send"
    /\ idx[c] = 2
    /\ result[c].how = "returned"
    /\ Truthy(result[c].value)
    /\ log[c].writes = <<RC4, AES_PORTABLE>>

\* ---- C12.  An exchange that starts while auto-detect is latched on V does no
\* probing and writes once, encrypted with V.
C12_LatchedWritesOnceWithLatch ==
  \A c \in DOMAIN pc :
    log[c].latch # NoType =>
      /\ idx[c] = 0
      /\ log[c].enc = log[c].latch
      /\ pc[c] = "sc_sleep" => log[c].writes = <<>>
      /\ (pc[c] \in {"sc_wait", "ca_sleep"} \/ result[c].how \in {"returned", "raised"}) =>
           log[c].writes = <<log[c].latch>>

\* exchanges that started latched on AES-Portable (not the first candidate) and
\* returned: a collect-all, or a single-response one
C12_Witness ==
  \E c \in DOMAIN pc :
    /\ log[c].latch = AES_PORTABLE
    /\ op[c] \in {"send", "collect"}
    /\ result[c].how = "returned"
    /\ log[c].writes = <<AES_PORTABLE>>

\* ---- C13.  A probing collect-all with collect_time > 2.0 returns every frame
\* that arrived in its windows, those of the remaining collect_time - 2.0 s
\* included: the list returned after the remaining sleep is the list of frames
\* handed to the callback during the call.
C13_RestWindowCollected ==
  [][\A c \in DOMAIN pc :
       (pc[c] = "cad_rest" /\ pc'[c] = "done") => result'[c].list = log[c].heard]_vars

\* ---- C14.  A collect-all with a fixed or latched codec writes once and
\* returns exactly the frames handed to the callback between its write and the
\* end of its window, in arrival order.
C14_CollectsWindowInOrder ==
  \A c \in DOMAIN pc :
    (op[c] = "collect" /\ idx[c] = 0) =>
      /\ pc[c] = "ca_sleep" => (responses[c] = log[c].heard /\ Len(log[c].writes) = 1)
      /\ result[c].how = "returned" =>
           (result[c].list = log[c].heard /\ log[c].writes = <<log[c].enc>>)

\* a collect-all returned two different frames in the order they arrived
C14_Witness ==
  \E c \in DOMAIN pc :
    /\ op[c] = "collect"
    /\ idx[c] = 0
    /\ result[c].how = "returned"
    /\ Len(result[c].list) = 2
    /\ result[c].list[1] # result[c].list[2]

\* ---- C15.  connect and connect_by_address make at most `retries` attempts,
\* sleep after each failed attempt except the last, return True at the first
\* attempt in which link and subscription both succeed (no attempt after it),
\* return False once all attempts have failed, and end in no other way.
C15_AtMostRetriesAttempts ==
  LET n == Len(conn.tried)
      failed == {i \in 1..n : conn.tried[i] # "ok"}
  IN /\ n <= conn.retries
     /\ \A i \in 1..n : conn.tried[i] = "ok" => i = n
     /\ conn.at = "try" => (conn.sleeps = n /\ failed = 1..n)
     /\ conn.at = "backoff" => (conn.sleeps = n /\ failed = 1..n /\ n < conn.retries)
     /\ conn.at = "done" =>
          /\ conn.returned \in {"true", "false"}
          /\ conn.returned = "true" <=> (n >= 1 /\ conn.tried[n] = "ok")
          /\ conn.returned = "true" => (conn.sleeps = n - 1 /\ connected /\ subscribed)
          /\ conn.returned = "false" =>
               /\ n = conn.retries
               /\ failed = 1..n
               /\ conn.sleeps = (IF n = 0 THEN 0 ELSE n - 1)
               /\ ~(connected /\ subscribed)
     /\ conn.at # "done" => conn.returned = "pending"

\* the second of two attempts succeeded after one backoff sleep
C15_Witness ==
  /\ conn.retries = 2
  /\ conn.tried = <<"no_notify", "ok">>
  /\ conn.sleeps = 1
  /\ conn.returned = "true"

\* ---- C16.  One TIME_SYNC write per connection: a client never gets a second
\* one; once the task that connected a client is past its time sync, that
\* client has had one; every device-property query written to a client comes
\* after a TIME_SYNC written to it; and a task that found the link up writes
\* none.
SyncsOn(k) == {i \in DOMAIN trace : trace[i].what = "sync" /\ trace[i].client = k}

C16_OneTimeSyncPerConnection ==
  /\ \A k \in DOMAIN links : Cardinality(SyncsOn(k)) <= 1
  /\ \A i \in DOMAIN trace :
       /\ (trace[i].what = "connected" /\ task[trace[i].task].pc \notin {"connecting", "sync_sleep"})
             => Cardinality(SyncsOn(trace[i].client)) = 1
       /\ trace[i].what = "query" => \E j \in SyncsOn(trace[i].client) : j < i
       /\ trace[i].what = "sync" => ~task[trace[i].task].found_up

\* ---- C17.  A poll that got its responses returns a document only if some
\* response contributed a key, and the document is then not empty; with no
\* responses, or with none that contributes, it raises UpdateFailed.
Contributes(r) == DOMAIN MergeOne(<<>>, r) # {}

C17_DocumentOnlyIfMerged ==
  \A t \in DOMAIN task :
    (task[t].kind = "poll" /\ task[t].collected) =>
      LET some == \E i \in DOMAIN task[t].responses : Contributes(task[t].responses[i])
      IN /\ task[t].out \in {"doc", "UpdateFailed"}
         /\ task[t].out = "doc" => (some /\ DOMAIN task[t].doc # {})
         /\ ~some => task[t].out = "UpdateFailed"

\* two responses came back, neither contributes, and the poll raised
C17_Witness ==
  \E t \in DOMAIN task :
    /\ task[t].kind = "poll" /\ task[t].collected
    /\ Len(task[t].responses) = 2
    /\ \A i \in DOMAIN task[t].responses : ~Contributes(task[t].responses[i])
    /\ task[t].out = "UpdateFailed"

\* ---- C18.  The only error that leaves a finished poll is UpdateFailed: a
\* poll ends with a document or with UpdateFailed.
C18_OnlyUpdateFailed ==
  \A t \in DOMAIN task :
    (task[t].kind = "poll" /\ task[t].pc = "done") => task[t].out \in {"doc", "UpdateFailed"}

\* ---- C19.  After a poll that failed in the write of its query, the next
\* poll does not find the link up: it makes a new client and connects it.
C19_ReconnectAfterWriteFailure ==
  \A t1, t2 \in DOMAIN task :
    (/\ t1 < t2
     /\ task[t1].kind = "poll" /\ task[t1].pc = "done" /\ task[t1].why = "write"
     /\ task[t2].kind = "poll"
     /\ \A u \in DOMAIN task : (t1 < u /\ u < t2) => task[u].kind # "poll")
    => ~task[t2].found_up

\* ---- C20.  The document a poll returns has no key that starts with "_".
C20_NoInternalKey ==
  \A t \in DOMAIN task :
    task[t].out = "doc" => \A k \in DOMAIN task[t].doc : ~Internal(k)

\* ---- C21.  A control command that returned True wrote its command with
\* success and then requested its refresh; a refresh is requested only after
\* the successful write; one that returned False requested none; nothing
\* else leaves send_control_command.
C21_RefreshOnlyAfterWrite ==
  /\ \A t \in DOMAIN task :
       (task[t].kind = "control" /\ task[t].pc = "done") =>
         /\ task[t].out \in {"True", "False"}
         /\ task[t].out = "True" =>
              \E i, j \in DOMAIN trace :
                /\ i < j
                /\ trace[i].what = "control" /\ trace[i].task = t /\ trace[i].ok
                /\ trace[j].what = "refresh" /\ trace[j].task = t
         /\ task[t].out = "False" =>
              \A j \in DOMAIN trace : ~(trace[j].what = "refresh" /\ trace[j].task = t)
  /\ \A j \in DOMAIN trace :
       trace[j].what = "refresh" =>
         \E i \in 1..(j - 1) :
           trace[i].what = "control" /\ trace[i].task = trace[j].task /\ trace[i].ok

\* a control command whose write failed has returned False
C21_Witness ==
  \E t \in DOMAIN task, i \in DOMAIN trace :
    /\ task[t].kind = "control" /\ task[t].pc = "done" /\ task[t].out = "False"
    /\ trace[i].what = "control" /\ trace[i].task = t /\ ~trace[i].ok

\* ---- C22.  Once async_shutdown has returned the coordinator holds no
\* client, its connected flag is False, and the client it dropped has no
\* connection handle.
C22_ShutdownLeavesNothing ==
  shut.pc = "done" =>
    /\ coClient = 0
    /\ ~coConnected
    /\ shut.dropped # 0 => links[shut.dropped] = "none"

\* ---- C23.  After a connect that succeeded on a client with a key, the codec
\* is the one the precedence gives: box gives AES_Box, else model code 20 or 21
\* gives AES_Portable, else RC4 for a known model code and AutoDetect for an
\* unknown one; get_encryption_handler without override gives the same.
CodecByPrecedence(c) ==
  IF c.device_type = "box" THEN Fixed(AES_BOX)
  ELSE IF c.model_code \in {20, 21} THEN Fixed(AES_PORTABLE)
  ELSE IF c.model_code # NoCode THEN Fixed(RC4)
  ELSE Auto("portable")

C23_CodecPrecedence ==
  (conn.returned = "true" /\ cfg.key) =>
    /\ encryption = CodecByPrecedence(cfg)
    /\ GetEncryptionHandler(cfg.device_type, cfg.model_code, NoType) = CodecByPrecedence(cfg)
    /\ \A o \in EncTypes : GetEncryptionHandler(cfg.device_type, cfg.model_code, o) = Fixed(o)

\* ---- C27.  A frame from build_command is the 3-byte prefix, then the action
\* id, the message type and the body length, each one byte (the value mod
\* 256), then the UTF-8 bytes of the body; for a body of at most 255 bytes the
\* length byte is the number of body bytes.
C27_FrameLayout ==
  output.fn = "build_command" =>
    LET f == output.frame
        body == Utf8(input.body)
    IN /\ Len(f) = 6 + Len(body)
       /\ \A i \in DOMAIN f : f[i] \in 0..255
       /\ SubSeq(f, 1, 3) = Prefix(input.device_type)
       /\ f[4] = input.action_id % 256
       /\ f[5] = input.msg_type % 256
       /\ SubSeq(f, 7, Len(f)) = body
       /\ Len(body) <= 255 => f[6] = Len(body)

\* a frame was built for an action id above 255 and a body of 255 bytes
C27_Witness ==
  /\ output.fn = "build_command"
  /\ input.action_id > 255
  /\ Len(output.frame) = 6 + 255

\* ---- C28.  As claimed: the body of the set_light_mode(3) frame is 9 bytes
\* and its length byte is 0x09.
C28_BodyNineBytes ==
  (output.fn = "set_light_mode" /\ input.mode = 3) =>
    /\ Len(output.frame) - 6 = 9
    /\ output.frame[6] = 9

\* ---- C28.  Amended: the body of the set_light_mode(3) frame is the UTF-8
\* text {"lm":3}, which is 8 bytes, and its length byte is 0x08.
C28_BodyEightBytes ==
  (output.fn = "set_light_mode" /\ input.mode = 3) =>
    /\ SubSeq(output.frame, 7, Len(output.frame)) = Utf8(<<123, 34, 108, 109, 34, 58, 51, 125>>)
    /\ Len(output.frame) - 6 = 8
    /\ output.frame[6] = 8

C28_Witness == output.fn = "set_light_mode" /\ input.mode = 3 /\ input.device_type = "portable"

\* ---- C24.  The key bytes a handler uses are 16 bytes: the first 16 of a
\* longer key, a shorter key padded on the right with zero bytes; the IV of an
\* AES handler is that key.
C24_KeySixteenBytes ==
  output.fn = "handler" =>
    /\ Len(output.key_bytes) = 16
    /\ \A i \in 1..16 :
         output.key_bytes[i] = IF i <= Len(input.key) THEN input.key[i] ELSE 0
    /\ input.enc_type # RC4 => output.iv = output.key_bytes

\* ---- C25.  Decrypting what encrypt made of a built frame gives the frame.
C25_RoundTrip ==
  (output.fn = "roundtrip" /\ output.dec # NotDecrypted) => output.dec = input.frame

\* ---- C26.  decrypt returns a body only if the decrypted frame starts with
\* the variant's magic and its last two bytes are the CRC-16 of the bytes
\* before them; otherwise it returns None.
DecryptedFrame(enc_type, enc) ==
  IF enc_type = RC4 THEN StreamXor(enc, DeviceKey)
  ELSE LET padded == BlockDecrypt(enc, SubSeq(DeviceKey, 1, 16))
       IN IF PadOk(padded) THEN Unpad(padded) ELSE <<>>

MagicOf(enc_type, frame) ==
  IF Len(frame) < 4 THEN <<>>
  ELSE IF enc_type = RC4
    THEN <<BitXor(frame[1], frame[Len(frame) - 2]), BitXor(frame[2], frame[Len(frame) - 2])>>
  ELSE SubSeq(frame, 1, 2)

TrailerOk(frame) ==
  /\ Len(frame) >= 4
  /\ SubSeq(frame, Len(frame) - 1, Len(frame)) = Crc16(SubSeq(frame, 1, Len(frame) - 2))

C26_BodyOnlyIfMagicAndCrc ==
  (output.fn \in {"roundtrip", "received"} /\ output.dec \notin {NotDecrypted, NoBody}) =>
    LET frame == DecryptedFrame(input.enc_type, output.enc)
    IN /\ MagicOf(input.enc_type, frame) = Magic(input.enc_type)
       /\ TrailerOk(frame)

\* a frame with the right magic and a wrong trailer arrived and gave None
C26_Witness ==
  /\ output.fn = "received"
  /\ output.dec = NoBody
  /\ LET frame == DecryptedFrame(input.enc_type, output.enc)
     IN /\ Len(frame) >= 8
        /\ MagicOf(input.enc_type, frame) = Magic(input.enc_type)
        /\ ~TrailerOk(frame)

\* ---- C30.  A wrong CRC trailer alone does not stop the advertisement
\* decoder: with a valid SN and a 14-byte service blob it returns the key, SN
\* and model code it returns for the same advertisement with the right
\* trailer.
ValidAdvert(adv) ==
  /\ SnPart1Byte(adv.mfr_id) < 128
  /\ Len(adv.mfr_bytes) = 14
  /\ adv.svc_len = 14

C30_ExtractIgnoresCrc ==
  (input.fn = "advert" /\ ValidAdvert(input.adv) /\ ~input.adv.crc_ok /\ output.extracted # NotRun) =>
    /\ output.extracted # NoneTuple
    /\ output.extracted = ExtractKeyFromAdvertisement(input.adv.mfr_id, input.adv.mfr_bytes,
                                                      ServiceData(input.adv, TRUE))

C30_CrcMismatchStillDerives ==
  /\ C30_ExtractIgnoresCrc
  /\ (input.fn = "advert" /\ ValidAdvert(input.adv) /\ ~input.adv.crc_ok /\ output.derived # NotRun) =>
       /\ output.derived # NoneTuple
       /\ output.derived = DeriveKeyFromAdvertisement(input.adv.mfr_id, input.adv.mfr_bytes,
                                                      ServiceData(input.adv, TRUE))

\* ---- C29.  A scan keeps at most one device per address, only for
\* advertisements whose name matches the filter, and the device kept for an
\* address is the one of the first matching advertisement of that address.
FirstMatching(k) ==
  /\ IsJackery(input.heard[k].name, input.name_filter)
  /\ \A j \in 1..(k - 1) :
       ~(input.heard[j].address = input.heard[k].address
         /\ IsJackery(input.heard[j].name, input.name_filter))

DedupedByAddress(list) ==
  /\ \A i, j \in 1..Len(list) : list[i].address = list[j].address => i = j
  /\ \A i \in 1..Len(list) :
       \E k \in 1..Len(input.heard) :
         /\ FirstMatching(k)
         /\ input.heard[k].address = list[i].address
         /\ input.heard[k].name = list[i].name
         /\ input.heard[k].rssi = list[i].rssi
         /\ input.heard[k].data = list[i].data
  /\ \A k \in 1..Len(input.heard) :
       IsJackery(input.heard[k].name, input.name_filter) => Known(input.heard[k].address, list)

C29_ScanDedupesByAddress ==
  input.fn = "scan" =>
    /\ DedupedByAddress(devices_dict)
    /\ output # NoOutput => DedupedByAddress(output.devices)

\* the scan returned after two different matching advertisements of one address
C29_Witness ==
  /\ input.fn = "scan"
  /\ output # NoOutput
  /\ \E k \in 1..Len(input.heard) :
       /\ FirstMatching(k)
       /\ \E j \in (k + 1)..Len(input.heard) :
            /\ input.heard[j].address = input.heard[k].address
            /\ IsJackery(input.heard[j].name, input.name_filter)
            /\ input.heard[j].rssi # input.heard[k].rssi
       /\ \E i \in 1..Len(output.devices) :
            /\ output.devices[i].address = input.heard[k].address
            /\ output.devices[i].rssi = input.heard[k].rssi

\* ---- C31.  Decoding an advertisement gives (None, None, None) or a key
\* together with an SN of at least 8 characters, and a device whose
\* advertisement does not decode is listed by the scan all the same, without
\* a key.
C31_DecodeNeverFailsScan ==
  input.fn = "advert" =>
    /\ output.extracted # NotRun =>
         \/ output.extracted = NoneTuple
         \/ /\ output.extracted.key \notin {NoBody, <<>>}
            /\ output.extracted.sn # NoBody
            /\ Len(output.extracted.sn) >= 8
    /\ devices_dict # <<>> =>
         /\ Len(devices_dict) = 1
         /\ devices_dict[1].data = input.adv
         /\ output.extracted = NoneTuple =>
              /\ devices_dict[1].encryption_key = NoBody
              /\ devices_dict[1].device_sn = NoBody

\* an advertisement that does not decode, and its device in the scan result
C31_Witness ==
  /\ input.fn = "advert"
  /\ output.extracted = NoneTuple
  /\ Len(devices_dict) = 1
  /\ devices_dict[1].encryption_key = NoBody

\* ---- C32.  A latch set to V stays V until a notification fails to decode
\* under V: every step that changes a set latch is the handling of a
\* notification that the handler of V does not decode.
C32_LatchOneWay ==
  [][(IsAuto /\ encryption.detected # NoType /\ encryption'.detected # encryption.detected) =>
       /\ pc' = pc
       /\ \E data \in DataS :
            /\ HandlerDecrypt(encryption.detected, data) = NoBody
            /\ Decrypt(encryption, data).detected = encryption'.detected]_vars

\* ---- C35.  A probe that ends with the latch set leaves it on a variant
\* whose handler decoded a notification received during the probe.
C35_LatchDecodedTheResponse ==
  [][\A c \in DOMAIN pc :
       (pc[c] \in Probing /\ pc'[c] \in {"done", "cad_rest"} /\ result'[c].how = "returned"
          /\ encryption'.detected # NoType) =>
         encryption'.detected \in log[c].decoded]_vars

\* ---- C33.  As claimed: when some response of a poll parses to a non-empty
\* object the poll returns a document, and the document has every key of
\* every response that parses to an object.
ParsedKeys(r) ==
  IF r.kind = "dict" THEN DOMAIN r.doc
  ELSE IF Utf8Ok(r.raw) /\ JsonLoads(r.raw).t = "dict" THEN DOMAIN JsonLoads(r.raw).doc
  ELSE {}

C33_AllKeysOfParseable ==
  \A t \in DOMAIN task :
    (task[t].kind = "poll" /\ task[t].collected
       /\ \E i \in DOMAIN task[t].responses : ParsedKeys(task[t].responses[i]) # {}) =>
      /\ task[t].out = "doc"
      /\ \A i \in DOMAIN task[t].responses :
           ParsedKeys(task[t].responses[i]) \subseteq DOMAIN task[t].doc

\* ---- C33.  Amended: when some response of a poll parses to an object with a
\* key that does not start with "_" the poll returns a document, and the
\* document has every such key of every response that parses to an object,
\* wherever the responses that do not parse stand in the list.
PublicKeys(r) == {k \in ParsedKeys(r) : ~Internal(k)}

C33_PublicKeysOfParseable ==
  \A t \in DOMAIN task :
    (task[t].kind = "poll" /\ task[t].collected
       /\ \E i \in DOMAIN task[t].responses : PublicKeys(task[t].responses[i]) # {}) =>
      /\ task[t].out = "doc"
      /\ \A i \in DOMAIN task[t].responses :
           PublicKeys(task[t].responses[i]) \subseteq DOMAIN task[t].doc

\* a response that does not parse came after one that does, and the poll
\* returned the keys of the first
C33_Witness ==
  \E t \in DOMAIN task :
    /\ task[t].kind = "poll" /\ task[t].collected
    /\ Len(task[t].responses) = 2
    /\ PublicKeys(task[t].responses[1]) # {}
    /\ task[t].responses[2].kind = "raw"
    /\ JsonLoads(task[t].responses[2].raw) = JsonError
    /\ task[t].out = "doc"
    /\ PublicKeys(task[t].responses[1]) \subseteq DOMAIN task[t].doc

\* ---- C34.  A fire-and-forget send on a connected client never probes and
\* never waits on the response signal: it sleeps, writes once and returns no
\* response; with an unlatched AutoDetect codec the write is encrypted with
\* the first candidate.
C34_FireAndForgetWritesOnce ==
  \A c \in DOMAIN pc :
    (op[c] = "fire" /\ result[c].how # "not_connected") =>
      /\ idx[c] = 0
      /\ pc[c] \in {"sc_sleep", "done"}
      /\ pc[c] = "sc_sleep" => log[c].writes = <<>>
      /\ pc[c] = "done" => log[c].writes = <<log[c].enc>>
      /\ result[c].how = "returned" => (result[c].value = NoBody /\ result[c].list = <<>>)
      /\ (IsAuto /\ log[c].latch = NoType) => log[c].enc = EncTypesOf(encryption)[1]
      /\ (IsAuto /\ log[c].latch # NoType) => log[c].enc = log[c].latch

\* a fire-and-forget send on an unlatched AutoDetect codec returned although a
\* notification had set the signal while it slept
C34_Witness ==
  \E c \in DOMAIN pc :
    /\ op[c] = "fire"
    /\ IsAuto
    /\ log[c].latch = NoType
    /\ result[c].how = "returned"
    /\ log[c].writes = <<RC4>>
    /\ event

\* ---- C36.  When connect or connect_by_address has returned False the client
\* is not connected.
C36_FalseMeansNotConnected ==
  conn.returned = "false" => ~connected

\* ---- C37.  The response a single-response send_command returns was notified
\* after the command was written: a call that returned a response had the
\* signal set by a notification while it waited.
C37_ResponseNotifiedAfterWrite ==
  \A c \in DOMAIN pc :
    (op[c] = "send" /\ idx[c] = 0 /\ result[c].how = "returned" /\ Truthy(result[c].value)) =>
      log[c].fresh

\* ---- C38.  send_command and send_command_collect_all called on a client that
\* is not connected raise the not-connected error, leave the response signal,
\* the last-response slot, the packet buffer, the encryption latch and the
\* notification callback slot as they were, and write nothing.
C38_NotConnectedRaisesUntouched ==
  [][\A c \in DOMAIN pc :
       (pc[c] = "new" /\ pc'[c] # "new" /\ link # "up") =>
         /\ pc'[c] = "done"
         /\ result'[c].how = "not_connected"
         /\ UNCHANGED <<event, last_response, packet_buffer, encryption, callback>>
         /\ log'[c].writes = <<>>]_vars

C38_Witness ==
  \E c \in DOMAIN pc :
    /\ result[c].how = "not_connected"
    /\ op[c] = "collect"
    /\ event
    /\ Truthy(last_response)
    /\ encryption.detected # NoType
    /\ callback # NoCallback
    /\ packet_buffer # <<>>

\* ---- C39.  After collect-all exchanges that overlapped on one client have all
\* returned, the callback slot holds the value it had before the first one
\* started (no callback), and no exchange's temporary collector is installed.
C39_OverlapRestoresCallback ==
  (\A c \in DOMAIN pc : op[c] = "collect" /\ result[c].how = "returned") =>
    callback = NoCallback

\* ---- C40.  Every exchange terminates: a call that is suspended eventually
\* returns or raises, whether or not a notification arrives, and a
\* single-response wait that ends with the signal clear returns no response.
C40_EveryExchangeTerminates ==
  /\ \A c \in 1..MaxSerial : (pc[c] \in Suspended) ~> (pc[c] = "done")
  /\ [][\A c \in DOMAIN pc :
         (pc[c] = "sc_wait" /\ ~event /\ pc'[c] # "sc_wait") =>
           (pc'[c] = "done" /\ result'[c] = [how |-> "returned", value |-> NoBody, list |-> <<>>])]_vars

C40_Witness ==
  \E c \in DOMAIN pc :
    /\ pc[c] = "done"
    /\ op[c] = "send"
    /\ connected
    /\ idx[c] = 0
    /\ ~event
    /\ result[c] = [how |-> "returned", value |-> NoBody, list |-> <<>>]

====
